---- MODULE Spec2Model ----
(***************************************************************************)
(* The interactive picker of the Neovim configuration plugin               *)
(* (src/src/picker/*.rs) and its user, the project-command runner          *)
(* (src/src/project_command.rs), as a state machine over the editor's      *)
(* buffers, windows and buffer-local key maps.                             *)
(*                                                                         *)
(* Handles are integers as in the editor; -1 is the "no window" handle of  *)
(* create_editable_picker_with_options.  Window 1 showing buffer 1 is the  *)
(* window the user was editing in before any picker was opened.            *)
(***************************************************************************)
EXTENDS Integers, Sequences, FiniteSets, TLC

VARIABLES
    nvim,       \* the editor: buffers, windows, key maps, focus, mode
    screen,     \* the editor's 'columns' and 'lines'
    cmd_map,    \* MY_PROJECT_COMMAND_STATE.cmd_map[project_dir]
    executed,   \* the commands handed to execute_command, in order
    opened,     \* what each call of the picker's open returned
    cb_log,     \* every invocation of a selected_callback
    panicked,   \* a handler indexed cmd_list out of bounds
    last,       \* the event handled last
    dired,      \* MY_DIRED_STATE
    mutex       \* the two module-state mutexes, as the last handler used them

vars == <<nvim, screen, cmd_map, executed, opened, cb_log, panicked, last,
          dired, mutex>>

----------------------------------------------------------------------------
(* Bounds of the model *)

\* number of picker opens in one run
MaxOpens == 2

(* The texts a user types into the Input window. *)
TypedTexts == {"", "./a.sh", "x"}

(* What reading the project directory can give: sorted "./<name>.sh". *)
ScriptLists == {<<>>, <<"./a.sh">>, <<"./a.sh", "./b.sh">>}

Screens == {[width |-> 80, height |-> 24]}

----------------------------------------------------------------------------
(* Helpers on functions and sequences *)

Restrict(f, S) == [x \in S |-> f[x]]

Contains(list, s) == \E i \in 1..Len(list) : list[i] = s

\* Vec::retain
Retain(list, Keep(_)) == SelectSeq(list, Keep)

Max(a, b) == IF a >= b THEN a ELSE b

\* (mutant) the cast keeps a negative number
AsU32_keeps_sign(x) == x

\* Rust's float-to-u32 `as` cast of a whole number: saturating (the upper end,
\* 2^32 - 1, is far beyond any screen or text of the model)
AsU32(x) == IF x < 0 THEN 0 ELSE x

----------------------------------------------------------------------------
(* The editor's API, as the picker uses it *)

\* nvim_create_buf: a new buffer holds one empty line
create_buf(h) ==
    [h EXCEPT !.bufs = h.nextBuf :> [lines |-> <<"">>, bufhidden |-> ""] @@ @,
              !.nextBuf = @ + 1]

\* set_option_value("bufhidden", "wipe", buffer)
set_bufhidden_wipe(h, b) ==
    IF b \in DOMAIN h.bufs THEN [h EXCEPT !.bufs[b].bufhidden = "wipe"] ELSE h

\* Buffer::set_lines(.., true, content): the buffer never has zero lines
set_lines(h, b, content) ==
    IF b \in DOMAIN h.bufs
    THEN [h EXCEPT !.bufs[b].lines = IF content = <<>> THEN <<"">> ELSE content]
    ELSE h

\* Buffer::line_count
line_count(h, b) == Len(h.bufs[b].lines)

\* Buffer::get_lines(start..end, strict_indexing = true), zero-based, end
\* exclusive: an index beyond the last line is an error
get_lines_ok(h, b, start, end) ==
    /\ b \in DOMAIN h.bufs
    /\ start <= line_count(h, b)
    /\ end <= line_count(h, b)

get_lines(h, b, start, end) == SubSeq(h.bufs[b].lines, start + 1, end)

\* nvim_open_win(buffer, enter = false, config): a new window on the buffer,
\* its cursor on the first line
open_win(h, b, cfg) ==
    [h EXCEPT !.wins = h.nextWin :> [buf |-> b, row |-> 1, col |-> 0, cfg |-> cfg] @@ @,
              !.nextWin = @ + 1]

\* Window::close(force): an error, which every caller drops, on a window that
\* no longer exists.  A buffer with bufhidden=wipe goes with its last window,
\* and its buffer-local key maps with it.  Focus falls back to the previous
\* window, or to the first one.
win_close(h, w) ==
    IF w \notin DOMAIN h.wins THEN h
    ELSE LET b      == h.wins[w].buf
             rest   == DOMAIN h.wins \ {w}
             hidden == \A x \in rest : h.wins[x].buf # b
             wiped  == /\ hidden
                       /\ b \in DOMAIN h.bufs
                       /\ h.bufs[b].bufhidden = "wipe"
             cur    == IF h.curWin # w THEN h.curWin
                       ELSE IF h.prevWin \in rest THEN h.prevWin ELSE 1
         IN  [h EXCEPT !.wins = Restrict(@, rest),
                       !.bufs = IF wiped THEN Restrict(@, DOMAIN @ \ {b}) ELSE @,
                       !.keymaps = IF wiped THEN Restrict(@, DOMAIN @ \ {b}) ELSE @,
                       !.curWin = cur,
                       !.prevWin = IF h.curWin # w THEN @ ELSE 1]

\* set_current_win: an error, dropped, on a window that does not exist
set_current_win(h, w) ==
    IF w \in DOMAIN h.wins /\ w # h.curWin
    THEN [h EXCEPT !.curWin = w, !.prevWin = h.curWin]
    ELSE h

\* vim_cmd("startinsert") / vim_cmd("stopinsert")
startinsert(h) == [h EXCEPT !.mode = "i"]
stopinsert(h) == [h EXCEPT !.mode = "n"]

\* the buffer shown in the focused window
current_buf(h) == h.wins[h.curWin].buf

----------------------------------------------------------------------------
(* Layout: popup_window.rs and the sizing part of picker.rs.  The f32 values *)
(* of the code are whole numbers after floor(); a ratio is num/den.          *)

NoRatio == [some |-> FALSE, num |-> 0, den |-> 1]
SomeRatio(n, d) == [some |-> TRUE, num |-> n, den |-> d]

\* `None => 0.5f32`
default_ratio(r) == IF r.some THEN r ELSE SomeRatio(1, 2)

\* (mutant) rounds to the nearest cell instead of down
ratio_round(n, r) == (2 * n * r.num + r.den) \div (2 * r.den)

\* ((screen as f32) * ratio).floor()
ratio_floor(n, r) == (n * r.num) \div r.den

\* the `for line in opts.list.iter()` loop of the auto width logic, from
\* item i on: max_cols grows, and width is set inside the loop body
RECURSIVE auto_width_loop(_, _, _, _)
auto_width_loop(list, i, max_cols, width) ==
    IF i > Len(list) THEN width
    ELSE LET m == IF Len(list[i]) > max_cols THEN Len(list[i]) ELSE max_cols
             w == IF m > 0 THEN m + 2 * 2 ELSE width
         IN  auto_width_loop(list, i + 1, m, w)

\* (mutant) auto width is used whether or not a width ratio is given
auto_width_case_ignores_ratio(opts) == opts.auto_width

\* `opts.auto_width && opts.window_width_ratio.is_none()`, and the same for
\* the height
auto_width_case(opts) == opts.auto_width /\ ~opts.window_width_ratio.some
auto_height_case(opts) == opts.auto_height /\ ~opts.window_height_ratio.some

\* (mutant) the free space is not halved
center_not_halved(screen_size, cal_size) == AsU32(screen_size - cal_size)

\* `(((screen_size as f32 - cal_size) / 2f32).floor()) as u32`
center(screen_size, cal_size) == AsU32((screen_size - cal_size) \div 2)

\* (mutant) one line is reserved instead of two
auto_height_logic_one_line(list) == Len(list) + 1

\* `height = opts.list.len() as f32 + 2.0f32; // 1 line title, 1 line empty input`
auto_height_logic(list) == Len(list) + 2

\* (mutant) a borderless picker is inflated like a bordered one
border_inflation_always(border, cells) == cells

\* `if opts.border == WindowBorder::None { size } else { size + cells }`: what
\* the border adds to the size used for centring
border_inflation(border, cells) == IF border = "None" THEN 0 ELSE cells

\* width, height and the top-left corner of the three stacked windows
editable_picker_layout(opts, title, list, scr) ==
    LET width0  == ratio_floor(scr.width, default_ratio(opts.window_width_ratio))
        height0 == ratio_floor(scr.height, default_ratio(opts.window_height_ratio))
        width   == IF auto_width_case(opts)
                   THEN auto_width_loop(list, 1, Len(title), width0)
                   ELSE width0
        height  == IF auto_height_case(opts)
                   THEN auto_height_logic(list)
                   ELSE height0
        cal_width  == width + border_inflation(opts.border, 2)
        cal_height == height + border_inflation(opts.border, 4)
    IN  [width |-> width, height |-> height,
         cal_width |-> cal_width, cal_height |-> cal_height,
         left |-> center(scr.width, cal_width),
         top |-> center(scr.height, cal_height)]

----------------------------------------------------------------------------
(* picker/keybindings.rs *)

\* (mutant) <c-e> bound to the <CR> handler
input_buffer_maps_cancel_commits ==
    (<<"i", "<CR>">>  :> "enter_callback") @@
    (<<"n", "<CR>">>  :> "enter_callback") @@
    (<<"i", "<c-j>">> :> "ctrl_j") @@
    (<<"n", "<c-j>">> :> "ctrl_j") @@
    (<<"i", "<c-k>">> :> "ctrl_k") @@
    (<<"n", "<c-k>">> :> "ctrl_k") @@
    (<<"n", "<c-e>">> :> "enter_callback") @@
    (<<"i", "<c-e>">> :> "enter_callback")

\* the eight buffer-local maps of the input buffer: which handler each
\* (mode, key) runs
input_buffer_maps ==
    (<<"i", "<CR>">>  :> "enter_callback") @@
    (<<"n", "<CR>">>  :> "enter_callback") @@
    (<<"i", "<c-j>">> :> "ctrl_j") @@
    (<<"n", "<c-j>">> :> "ctrl_j") @@
    (<<"i", "<c-k>">> :> "ctrl_k") @@
    (<<"n", "<c-k>">> :> "ctrl_k") @@
    (<<"n", "<c-e>">> :> "ctrl_e_to_close_the_picker") @@
    (<<"i", "<c-e>">> :> "ctrl_e_to_close_the_picker")

\* the maps are set on the input buffer, with what their closures capture
set_input_buffer_keybindings(h, title_window_handle, input_window_handle, list_window_handle, selected_callback) ==
    IF title_window_handle = -1 \/ input_window_handle = -1 \/ list_window_handle = -1
    THEN h
    ELSE [h EXCEPT !.keymaps = h.wins[input_window_handle].buf :>
                      [maps |-> input_buffer_maps,
                       title_window_handle |-> title_window_handle,
                       input_window_handle |-> input_window_handle,
                       list_window_handle  |-> list_window_handle,
                       input_buffer_handle |-> h.wins[input_window_handle].buf,
                       selected_callback   |-> selected_callback] @@ @]

----------------------------------------------------------------------------
(* picker/picker.rs *)

\* create_buf(false, false) and its options; bufhidden=wipe is the one that
\* matters to the buffer's lifetime
create_popup_buffer(h) == set_bufhidden_wipe(create_buf(h), h.nextBuf)

\* The local variables of create_editable_picker_with_options: the editor
\* as the function has left it so far, and the handles it holds
NewFrame(h) ==
    [h |-> h, title_buffer |-> -1, input_buffer |-> -1, list_buffer |-> -1,
     title_window_handle |-> -1, input_window_handle |-> -1,
     list_window_handle |-> -1]

\* `let mut title_buffer = create_popup_buffer()?;` and the two after it
new_title_buffer(f) ==
    [f EXCEPT !.h = create_popup_buffer(f.h), !.title_buffer = f.h.nextBuf]
new_input_buffer(f) ==
    [f EXCEPT !.h = create_popup_buffer(f.h), !.input_buffer = f.h.nextBuf]
new_list_buffer(f) ==
    [f EXCEPT !.h = create_popup_buffer(f.h), !.list_buffer = f.h.nextBuf]

\* fill the list buffer, then the title buffer
fill_buffers(f, title, list) ==
    [f EXCEPT !.h = set_lines(set_lines(f.h, f.list_buffer, list),
                              f.title_buffer, <<title>>)]

\* the border glyphs of the three windows, whatever opts.border is: whether
\* the window has a border row above and below its content.  The title has
\* none below, the list none above.
title_win_popup_border == [top |-> TRUE, bottom |-> FALSE]
input_win_popup_border == [top |-> TRUE, bottom |-> TRUE]
list_win_popup_border == [top |-> FALSE, bottom |-> TRUE]

\* (mutant) `top += 1`: the input window starts on the title's content row
open_input_window_one_below(f, lay, win_fail) ==
    IF "input" \in win_fail THEN f
    ELSE [f EXCEPT !.h = open_win(f.h, f.input_buffer,
                             [row |-> lay.top + 1, col |-> lay.left,
                              width |-> AsU32(lay.width), height |-> 1,
                              border |-> input_win_popup_border]),
                   !.input_window_handle = f.h.nextWin]

\* the three open_win calls; a refused window leaves its handle at -1
open_title_window(f, lay, win_fail) ==
    IF "title" \in win_fail THEN f
    ELSE [f EXCEPT !.h = open_win(f.h, f.title_buffer,
                             [row |-> lay.top, col |-> lay.left,
                              width |-> AsU32(lay.width), height |-> 1,
                              border |-> title_win_popup_border]),
                   !.title_window_handle = f.h.nextWin]

open_input_window(f, lay, win_fail) ==
    IF "input" \in win_fail THEN f
    ELSE [f EXCEPT !.h = open_win(f.h, f.input_buffer,
                             [row |-> lay.top + 2, col |-> lay.left,
                              width |-> AsU32(lay.width), height |-> 1,
                              border |-> input_win_popup_border]),
                   !.input_window_handle = f.h.nextWin]

\* (mutant) the list window is as high as the list, without the floor of 1
open_list_window_no_floor(f, lay, list_len, win_fail) ==
    IF "list" \in win_fail THEN f
    ELSE [f EXCEPT !.h = open_win(f.h, f.list_buffer,
                             [row |-> lay.top + 2 + 3, col |-> lay.left,
                              width |-> AsU32(lay.width),
                              height |-> list_len,
                              border |-> list_win_popup_border]),
                   !.list_window_handle = f.h.nextWin]

open_list_window(f, lay, list_len, win_fail) ==
    IF "list" \in win_fail THEN f
    ELSE [f EXCEPT !.h = open_win(f.h, f.list_buffer,
                             [row |-> lay.top + 2 + 3, col |-> lay.left,
                              width |-> AsU32(lay.width),
                              height |-> IF list_len > 0 THEN list_len ELSE 1,
                              border |-> list_win_popup_border]),
                   !.list_window_handle = f.h.nextWin]

\* the key maps, then focus on the input window in Insert mode
arm_and_focus(f, selected_callback) ==
    [f EXCEPT !.h = startinsert(set_current_win(
                        set_input_buffer_keybindings(f.h, f.title_window_handle,
                            f.input_window_handle, f.list_window_handle,
                            selected_callback),
                        f.input_window_handle))]

OpenErr(h) ==
    [h |-> h, ok |-> FALSE,
     title_window_handle |-> -1, input_window_handle |-> -1, list_window_handle |-> -1]

OpenOk(f) ==
    [h |-> f.h, ok |-> TRUE,
     title_window_handle |-> f.title_window_handle,
     input_window_handle |-> f.input_window_handle,
     list_window_handle |-> f.list_window_handle]

\* buf_fail: which of the three create_popup_buffer calls the editor refuses
\* (0: none); win_fail: the windows the editor refuses to open
create_editable_picker_with_options(h, scr, opts, title, list, selected_callback, buf_fail, win_fail) ==
    IF buf_fail = 1 THEN OpenErr(h)
    ELSE IF buf_fail = 2 THEN OpenErr(new_title_buffer(NewFrame(h)).h)
    ELSE IF buf_fail = 3
    THEN OpenErr(new_input_buffer(new_title_buffer(NewFrame(h))).h)
    ELSE OpenOk(
           arm_and_focus(
             open_list_window(
               open_input_window(
                 open_title_window(
                   fill_buffers(
                     new_list_buffer(new_input_buffer(new_title_buffer(NewFrame(h)))),
                     title, list),
                   editable_picker_layout(opts, title, list, scr), win_fail),
                 editable_picker_layout(opts, title, list, scr), win_fail),
               editable_picker_layout(opts, title, list, scr), Len(list), win_fail),
             selected_callback))

----------------------------------------------------------------------------
(* picker/popup_window.rs and the single-window picker of picker.rs *)

RECURSIVE max_line_len(_, _, _)
max_line_len(lines, i, max_cols) ==
    IF i > Len(lines) THEN max_cols
    ELSE max_line_len(lines, i + 1,
             IF Len(lines[i]) > max_cols THEN Len(lines[i]) ELSE max_cols)

\* width, height and the top-left corner of the popup window on a buffer
\* holding `lines`
popup_window_layout(opts, lines, scr) ==
    LET width0  == ratio_floor(scr.width, default_ratio(opts.window_width_ratio))
        height0 == ratio_floor(scr.height, default_ratio(opts.window_height_ratio))
        width   == IF /\ auto_width_case(opts)
                      /\ max_line_len(lines, 1, 0) > 0
                   THEN max_line_len(lines, 1, 0) + 2 * 2
                   ELSE width0
        height  == IF /\ auto_height_case(opts)
                      /\ Len(lines) > 0
                   THEN Len(lines)
                   ELSE height0
        cal_width  == width + border_inflation(opts.border, 2)
        cal_height == height + border_inflation(opts.border, 2)
    IN  [width |-> width, height |-> height,
         cal_width |-> cal_width, cal_height |-> cal_height,
         left |-> center(scr.width, cal_width),
         top |-> center(scr.height, cal_height)]

\* open_win(buffer, enter = true, config): None when the editor refuses
create_popup_window(h, scr, opts, buffer, win_fail) ==
    IF win_fail THEN h
    ELSE set_current_win(
             open_win(h, buffer,
                 [row |-> popup_window_layout(opts, h.bufs[buffer].lines, scr).top,
                  col |-> popup_window_layout(opts, h.bufs[buffer].lines, scr).left,
                  width |-> AsU32(popup_window_layout(opts, h.bufs[buffer].lines, scr).width),
                  height |-> AsU32(popup_window_layout(opts, h.bufs[buffer].lines, scr).height),
                  border |-> [top |-> opts.border # "None",
                              bottom |-> opts.border # "None"]]),
             h.nextWin)

\* the three Normal-mode maps of the picker buffer
picker_buffer_maps ==
    (<<"n", "<CR>">>  :> "picker_enter") @@
    (<<"n", "<c-j>">> :> "j") @@
    (<<"n", "<c-k>">> :> "k")

set_picker_buffer_keymaps(h, picker_buffer_id, selected_callback) ==
    [h EXCEPT !.keymaps = picker_buffer_id :>
                 [maps |-> picker_buffer_maps,
                  title_window_handle |-> -1,
                  input_window_handle |-> -1,
                  list_window_handle  |-> -1,
                  input_buffer_handle |-> picker_buffer_id,
                  selected_callback   |-> selected_callback] @@ @]

\* Ok(()) whether or not the window opened
create_picker_with_options(h, scr, opts, list, selected_callback, buf_fail, win_fail) ==
    IF buf_fail THEN [h |-> h, ok |-> FALSE]
    ELSE [h |-> create_popup_window(
                    set_picker_buffer_keymaps(
                        set_lines(create_popup_buffer(h), h.nextBuf, list),
                        h.nextBuf, selected_callback),
                    scr, opts, h.nextBuf, win_fail),
          ok |-> TRUE]

----------------------------------------------------------------------------
(* picker/keybindings.rs: the handlers *)

\* (mutant) <c-j> reads the line the cursor is on, not the one below it
ctrl_jk_callback_reads_current(h, list_win, is_ctrl_j, input_buffer, fails) ==
    IF list_win \notin DOMAIN h.wins THEN h
    ELSE
    LET row == h.wins[list_win].row
        list_buffer == h.wins[list_win].buf
        start == IF is_ctrl_j THEN row - 1 ELSE row - 2
        h1    == IF get_lines_ok(h, list_buffer, start, start + 1) /\ start >= 0
                 THEN set_lines(h, input_buffer,
                          <<get_lines(h, list_buffer, start, start + 1)[1]>>)
                 ELSE h
        new_row == IF is_ctrl_j /\ row < line_count(h, list_buffer) THEN row + 1
                   ELSE IF ~is_ctrl_j /\ row > 1 THEN row - 1
                   ELSE row
    IN  IF ~is_ctrl_j /\ row = 1 THEN h
        ELSE [h1 EXCEPT !.wins[list_win].row = new_row]

\* (mutant) <c-k> reads one line further up than the row it moves to
ctrl_jk_callback_up_reads_behind(h, list_win, is_ctrl_j, input_buffer, fails) ==
    IF list_win \notin DOMAIN h.wins THEN h
    ELSE
    LET row == h.wins[list_win].row
        list_buffer == h.wins[list_win].buf
        start == IF is_ctrl_j THEN row ELSE IF row >= 3 THEN row - 3 ELSE row
        h1    == IF get_lines_ok(h, list_buffer, start, start + 1)
                 THEN set_lines(h, input_buffer,
                          <<get_lines(h, list_buffer, start, start + 1)[1]>>)
                 ELSE h
        new_row == IF is_ctrl_j /\ row < line_count(h, list_buffer) THEN row + 1
                   ELSE IF ~is_ctrl_j /\ row > 1 THEN row - 1
                   ELSE row
    IN  IF ~is_ctrl_j /\ row = 1 THEN h
        ELSE [h1 EXCEPT !.wins[list_win].row = new_row]

\* (mutant) <c-j> moves down without looking at the line count
ctrl_jk_callback_no_bound(h, list_win, is_ctrl_j, input_buffer, fails) ==
    IF list_win \notin DOMAIN h.wins THEN h
    ELSE
    LET row == h.wins[list_win].row
        list_buffer == h.wins[list_win].buf
        start == IF ~is_ctrl_j /\ row >= 2 THEN row - 2 ELSE row
        h1    == IF get_lines_ok(h, list_buffer, start, start + 1)
                 THEN set_lines(h, input_buffer,
                          <<get_lines(h, list_buffer, start, start + 1)[1]>>)
                 ELSE h
        new_row == IF is_ctrl_j THEN row + 1
                   ELSE IF row > 1 THEN row - 1
                   ELSE row
    IN  IF ~is_ctrl_j /\ row = 1 THEN h
        ELSE [h1 EXCEPT !.wins[list_win].row = new_row]

\* (mutant) any failing call ends the handler before it changes anything
ctrl_jk_callback_all_or_nothing(h, list_win, is_ctrl_j, input_buffer, fails) ==
    IF list_win \notin DOMAIN h.wins \/ fails # {} THEN h
    ELSE
    LET row == h.wins[list_win].row
        list_buffer == h.wins[list_win].buf
        start == IF ~is_ctrl_j /\ row >= 2 THEN row - 2 ELSE row
        h1    == IF get_lines_ok(h, list_buffer, start, start + 1)
                 THEN set_lines(h, input_buffer,
                          <<get_lines(h, list_buffer, start, start + 1)[1]>>)
                 ELSE h
        new_row == IF is_ctrl_j /\ row < line_count(h, list_buffer) THEN row + 1
                   ELSE IF ~is_ctrl_j /\ row > 1 THEN row - 1
                   ELSE row
    IN  IF ~is_ctrl_j /\ row = 1 THEN h
        ELSE [h1 EXCEPT !.wins[list_win].row = new_row]

\* <c-j>/<c-k>.  fails: the editor calls that return Err in this event
ctrl_jk_callback(h, list_win, is_ctrl_j, input_buffer, fails) ==
    IF list_win \notin DOMAIN h.wins \/ "get_cursor" \in fails THEN h
    ELSE
    LET row == h.wins[list_win].row
    IN  IF ~is_ctrl_j /\ row = 1 THEN h
        ELSE
        LET buf_ok      == "get_buf" \notin fails
            list_buffer == h.wins[list_win].buf
            start       == IF ~is_ctrl_j /\ row >= 2 THEN row - 2 ELSE row
            read_ok     == /\ buf_ok
                           /\ "get_lines" \notin fails
                           /\ get_lines_ok(h, list_buffer, start, start + 1)
            lines       == IF read_ok THEN get_lines(h, list_buffer, start, start + 1)
                           ELSE <<>>
            h1          == IF lines # <<>> /\ "set_lines" \notin fails
                           THEN set_lines(h, input_buffer, <<lines[1]>>)
                           ELSE h
            count_ok    == /\ buf_ok
                           /\ "line_count" \notin fails
                           /\ list_buffer \in DOMAIN h.bufs
            new_row     == IF ~count_ok THEN row
                           ELSE IF is_ctrl_j /\ row < line_count(h, list_buffer) THEN row + 1
                           ELSE IF ~is_ctrl_j /\ row > 1 THEN row - 1
                           ELSE row
        IN  IF "set_cursor" \in fails THEN h1
            ELSE [h1 EXCEPT !.wins[list_win].row = new_row]

\* (mutant) the title window is closed twice, the input window never
enter_callback_keeps_input(h, title_window_handle, input_window_handle, list_window_handle) ==
    LET selected_text ==
            IF input_window_handle \in DOMAIN h.wins
               /\ get_lines_ok(h, h.wins[input_window_handle].buf, 0, 1)
            THEN get_lines(h, h.wins[input_window_handle].buf, 0, 1)[1]
            ELSE ""
        h1 == stopinsert(h)
        h2 == win_close(h1, title_window_handle)
        h3 == win_close(h2, title_window_handle)
        h4 == win_close(h3, list_window_handle)
    IN  [h |-> h4,
         calls |-> <<[session |-> input_window_handle, arg |-> selected_text,
                      args |-> [selected_text |-> selected_text]]>>]

\* (mutant) selected_callback is called before the windows are closed
enter_callback_calls_first(h, title_window_handle, input_window_handle, list_window_handle) ==
    LET selected_text ==
            IF input_window_handle \in DOMAIN h.wins
               /\ get_lines_ok(h, h.wins[input_window_handle].buf, 0, 1)
            THEN get_lines(h, h.wins[input_window_handle].buf, 0, 1)[1]
            ELSE ""
    IN  [h |-> stopinsert(h),
         calls |-> <<[session |-> input_window_handle, arg |-> selected_text,
                      args |-> [selected_text |-> selected_text]]>>]

\* (mutant) the text is read from the title window's buffer
enter_callback_reads_title(h, title_window_handle, input_window_handle, list_window_handle) ==
    LET selected_text ==
            IF title_window_handle \in DOMAIN h.wins
               /\ get_lines_ok(h, h.wins[title_window_handle].buf, 0, 1)
            THEN get_lines(h, h.wins[title_window_handle].buf, 0, 1)[1]
            ELSE ""
        h1 == stopinsert(h)
        h2 == win_close(h1, title_window_handle)
        h3 == win_close(h2, input_window_handle)
        h4 == win_close(h3, list_window_handle)
    IN  [h |-> h4,
         calls |-> <<[session |-> input_window_handle, arg |-> selected_text,
                      args |-> [selected_text |-> selected_text]]>>]

\* <CR>, up to the call of selected_callback: the editor as the callback
\* finds it, and the one call with the text read from the input buffer
enter_callback(h, title_window_handle, input_window_handle, list_window_handle) ==
    LET selected_text ==
            IF input_window_handle \in DOMAIN h.wins
               /\ get_lines_ok(h, h.wins[input_window_handle].buf, 0, 1)
            THEN get_lines(h, h.wins[input_window_handle].buf, 0, 1)[1]
            ELSE ""
        h1 == stopinsert(h)
        h2 == win_close(h1, title_window_handle)
        h3 == win_close(h2, input_window_handle)
        h4 == win_close(h3, list_window_handle)
    IN  [h |-> h4,
         calls |-> <<[session |-> input_window_handle, arg |-> selected_text,
                      args |-> [selected_text |-> selected_text]]>>]

\* (mutant) the input window is left open
ctrl_e_keeps_input_window(h, title_window_handle, input_window_handle, list_window_handle) ==
    LET h1 == stopinsert(h)
        h2 == win_close(h1, title_window_handle)
    IN  win_close(h2, list_window_handle)

\* (mutant) every window but the first is closed, as kill_other_windows does
ctrl_e_kills_other_windows(h, title_window_handle, input_window_handle, list_window_handle) ==
    [stopinsert(h) EXCEPT
        !.wins = Restrict(@, {1}),
        !.bufs = Restrict(@, {b \in DOMAIN h.bufs : h.bufs[b].bufhidden # "wipe"}),
        !.keymaps = Restrict(@, {b \in DOMAIN h.keymaps : h.bufs[b].bufhidden # "wipe"}),
        !.curWin = 1,
        !.prevWin = 1]

\* <c-e>
ctrl_e_to_close_the_picker(h, title_window_handle, input_window_handle, list_window_handle) ==
    LET h1 == stopinsert(h)
        h2 == win_close(h1, title_window_handle)
        h3 == win_close(h2, input_window_handle)
    IN  win_close(h3, list_window_handle)

----------------------------------------------------------------------------
(* project_command.rs *)

NoIndex == [some |-> FALSE, idx |-> 0]
SomeIndex(i) == [some |-> TRUE, idx |-> i]

NoState == [present |-> FALSE, cmd_list |-> <<>>, default_cmd_index |-> NoIndex]

NotEmpty(line) == line # ""

RECURSIVE update_default_cmd_index(_, _, _, _)

\* (mutant) the index is stored one-based
update_default_cmd_index_one_based(list, cmd, index, old) ==
    IF Contains(list, cmd)
    THEN SomeIndex(CHOOSE k \in 1..Len(list) :
                       list[k] = cmd /\ \A j \in 1..(k - 1) : list[j] # cmd)
    ELSE old

\* the first index (zero-based) of cmd in list, or the index as it was
update_default_cmd_index(list, cmd, index, old) ==
    IF index >= Len(list) THEN old
    ELSE IF list[index + 1] = cmd THEN SomeIndex(index)
    ELSE update_default_cmd_index(list, cmd, index + 1, old)

\* (mutant) the command is pushed without looking for it in cmd_list
picker_selected_callback_always_push(state, selected_cmd) ==
    LET quiet == [state |-> state, ran |-> <<>>, panic |-> FALSE]
        cmd == IF Len(selected_cmd) = 0
               THEN IF state.default_cmd_index.some
                    THEN state.cmd_list[state.default_cmd_index.idx + 1]
                    ELSE state.cmd_list[1]
               ELSE selected_cmd
        cmd_list == Retain(Append(state.cmd_list, cmd), NotEmpty)
    IN
    IF ~state.present THEN quiet
    ELSE IF Len(selected_cmd) = 0 /\ Len(state.cmd_list) = 0 THEN quiet
    ELSE [state |-> [state EXCEPT
                       !.cmd_list = cmd_list,
                       !.default_cmd_index =
                           update_default_cmd_index(cmd_list, cmd, 0, @)],
          ran |-> <<cmd>>,
          panic |-> FALSE]

\* (mutant) an empty selection is pushed as it is and kept
picker_selected_callback_pushes_blank(state, selected_cmd) ==
    LET quiet == [state |-> state, ran |-> <<>>, panic |-> FALSE]
        cmd == IF Len(selected_cmd) = 0
               THEN IF state.default_cmd_index.some
                    THEN state.cmd_list[state.default_cmd_index.idx + 1]
                    ELSE state.cmd_list[1]
               ELSE selected_cmd
        cmd_list == IF ~Contains(state.cmd_list, selected_cmd)
                    THEN Append(state.cmd_list, selected_cmd)
                    ELSE state.cmd_list
    IN
    IF ~state.present THEN quiet
    ELSE IF Len(selected_cmd) = 0 /\ Len(state.cmd_list) = 0 THEN quiet
    ELSE [state |-> [state EXCEPT
                       !.cmd_list = cmd_list,
                       !.default_cmd_index =
                           update_default_cmd_index(cmd_list, cmd, 0, @)],
          ran |-> <<cmd>>,
          panic |-> FALSE]

\* The closure given to the picker.  ran: what execute_command was called
\* with; panic: cmd_list indexed out of bounds
picker_selected_callback(state, selected_cmd) ==
    LET quiet == [state |-> state, ran |-> <<>>, panic |-> FALSE]
    IN
    IF ~state.present THEN quiet
    ELSE IF Len(selected_cmd) = 0 /\ Len(state.cmd_list) = 0 THEN quiet
    ELSE IF /\ Len(selected_cmd) = 0
            /\ state.default_cmd_index.some
            /\ state.default_cmd_index.idx >= Len(state.cmd_list)
    THEN [quiet EXCEPT !.panic = TRUE]
    ELSE
    LET cmd == IF Len(selected_cmd) = 0
               THEN IF state.default_cmd_index.some
                    THEN state.cmd_list[state.default_cmd_index.idx + 1]
                    ELSE state.cmd_list[1]
               ELSE selected_cmd
        cmd_list == IF ~Contains(state.cmd_list, cmd)
                    THEN Retain(Append(state.cmd_list, cmd), NotEmpty)
                    ELSE state.cmd_list
    IN  [state |-> [state EXCEPT
                       !.cmd_list = cmd_list,
                       !.default_cmd_index =
                           update_default_cmd_index(cmd_list, cmd, 0, @)],
         ran |-> <<cmd>>,
         panic |-> FALSE]

ProjectTitle == "Project Command ('Ctrl+e' to close picker)"

ProjectWindowOpts ==
    [border |-> "Rounded",
     window_width_ratio |-> NoRatio, window_height_ratio |-> NoRatio,
     auto_width |-> TRUE, auto_height |-> TRUE]

\* (mutant) the commands are shown in their stored order
display_cmd_list_stored_order(state) == state.cmd_list

\* the default command first, then the others in their order
display_cmd_list(state) ==
    IF ~state.default_cmd_index.some THEN state.cmd_list
    ELSE LET top_line == state.cmd_list[state.default_cmd_index.idx + 1]
             IsRest(line) == line # top_line
         IN  <<top_line>> \o SelectSeq(state.cmd_list, IsRest)

\* <leader>pc.  fs: what get_project_script_files returns on the first call
open(h, scr, state, fs, buf_fail, win_fail) ==
    LET state1 == IF ~state.present /\ fs.ok
                  THEN [present |-> TRUE, cmd_list |-> fs.files,
                        default_cmd_index |-> NoIndex]
                  ELSE state
        r == create_editable_picker_with_options(h, scr, ProjectWindowOpts,
                 ProjectTitle, display_cmd_list(state1), "project_command",
                 buf_fail, win_fail)
    IN  IF state1.present
        THEN [h |-> r.h, state |-> state1, called |-> TRUE, ok |-> r.ok,
              title_window_handle |-> r.title_window_handle,
              input_window_handle |-> r.input_window_handle,
              list_window_handle |-> r.list_window_handle]
        ELSE [h |-> h, state |-> state1, called |-> FALSE, ok |-> FALSE,
              title_window_handle |-> -1, input_window_handle |-> -1,
              list_window_handle |-> -1]

----------------------------------------------------------------------------
(* The handlers behind the key maps, and the callbacks they reach *)

\* j / k in the focused window
cursor_down(h) ==
    [h EXCEPT !.wins[h.curWin].row =
         IF @ < line_count(h, current_buf(h)) THEN @ + 1 ELSE @]
cursor_up(h) ==
    [h EXCEPT !.wins[h.curWin].row = IF @ > 1 THEN @ - 1 ELSE @]

\* the handler a key map names: the editor after it, and the call of
\* selected_callback it makes, if it makes one
run_handler(name, h, km, fails) ==
    CASE name = "enter_callback" ->
            enter_callback(h, km.title_window_handle, km.input_window_handle,
                km.list_window_handle)
      [] name = "ctrl_j" ->
            [h |-> ctrl_jk_callback(h, km.list_window_handle, TRUE,
                       km.input_buffer_handle, fails),
             calls |-> <<>>]
      [] name = "ctrl_k" ->
            [h |-> ctrl_jk_callback(h, km.list_window_handle, FALSE,
                       km.input_buffer_handle, fails),
             calls |-> <<>>]
      [] name = "ctrl_e_to_close_the_picker" ->
            [h |-> ctrl_e_to_close_the_picker(h, km.title_window_handle,
                       km.input_window_handle, km.list_window_handle),
             calls |-> <<>>]
      [] name = "picker_enter" ->
            [h |-> h,
             calls |-> <<[session |-> h.curWin, arg |-> h.curWin,
                          args |-> [picker_buffer_id |-> km.input_buffer_handle,
                                    win_handle |-> h.curWin]]>>]
      [] name = "j" -> [h |-> cursor_down(h), calls |-> <<>>]
      [] name = "k" -> [h |-> cursor_up(h), calls |-> <<>>]

\* (mutant) the first line of the buffer, wherever the cursor is
get_current_line_first(h) == h.bufs[current_buf(h)].lines[1]

\* get_current_line
get_current_line(h) == h.bufs[current_buf(h)].lines[h.wins[h.curWin].row]

\* (mutant) the closure of run_test_picker leaves the picker window open
call_selected_callback_keeps_window(selected_callback, h, state, call) ==
    CASE selected_callback = "project_command" ->
            [h |-> h, text |-> call.arg,
             state |-> picker_selected_callback(state, call.arg).state,
             ran |-> picker_selected_callback(state, call.arg).ran,
             panic |-> picker_selected_callback(state, call.arg).panic]
      [] selected_callback = "run_test_picker" ->
            [h |-> h, text |-> get_current_line(h),
             state |-> state, ran |-> <<>>, panic |-> FALSE]
      [] selected_callback = "run_test_picker_2" ->
            [h |-> h, text |-> call.arg,
             state |-> state, ran |-> <<>>, panic |-> FALSE]

\* selected_callback(..): the closure of project_command::open, of
\* run_test_picker (reads the line under the cursor, closes the window) and
\* of run_test_picker_2 (nothing)
call_selected_callback(selected_callback, h, state, call) ==
    CASE selected_callback = "project_command" ->
            [h |-> h, text |-> call.arg,
             state |-> picker_selected_callback(state, call.arg).state,
             ran |-> picker_selected_callback(state, call.arg).ran,
             panic |-> picker_selected_callback(state, call.arg).panic]
      [] selected_callback = "run_test_picker" ->
            [h |-> win_close(h, call.arg), text |-> get_current_line(h),
             state |-> state, ran |-> <<>>, panic |-> FALSE]
      [] selected_callback = "run_test_picker_2" ->
            [h |-> h, text |-> call.arg,
             state |-> state, ran |-> <<>>, panic |-> FALSE]

----------------------------------------------------------------------------
(* The module-state mutexes (std::sync::Mutex, not reentrant) and the      *)
(* handlers' use of them: what a handler locks and unlocks, in order, the  *)
(* calls it makes included.  A guard is released where its scope ends.     *)

Lock(m) == <<[op |-> "lock", m |-> m]>>
Unlock(m) == <<[op |-> "unlock", m |-> m]>>

\* no mutex held; relocked: a handler locked a mutex its call chain held
\* (the thread then blocks for ever); acquired: the locks of the last handler
NoLocks == [held |-> {}, relocked |-> FALSE, acquired |-> 0]

RECURSIVE RunTrace(_, _)
RunTrace(m, trace) ==
    IF trace = <<>> THEN m
    ELSE RunTrace(
             IF Head(trace).op = "lock"
             THEN [held |-> m.held \cup {Head(trace).m},
                   relocked |-> m.relocked \/ Head(trace).m \in m.held,
                   acquired |-> m.acquired + 1]
             ELSE [m EXCEPT !.held = @ \ {Head(trace).m}],
             Tail(trace))

\* the mutexes after a handler that locks and unlocks as trace says
RunLocks(m, trace) == RunTrace([m EXCEPT !.acquired = 0], trace)

\* picker_selected_callback: the guard lives to the end of the function,
\* over execute_command
picker_selected_callback_locks ==
    Lock("MY_PROJECT_COMMAND_STATE") \o Unlock("MY_PROJECT_COMMAND_STATE")

\* (mutant) the picker calls the callback while it is being created
create_editable_picker_calls_back(callback_locks) == callback_locks

\* what create_editable_picker_with_options does with the callback it is
\* given: it moves it into the key maps' closures and does not call it
create_editable_picker_calls(callback_locks) == <<>>

\* project_command::open: a first guard in a scope of its own, a second one
\* from the lookup of the project's commands to the end of the function,
\* over the creation of the picker
project_command_open_locks ==
    Lock("MY_PROJECT_COMMAND_STATE") \o Unlock("MY_PROJECT_COMMAND_STATE")
        \o Lock("MY_PROJECT_COMMAND_STATE")
        \o create_editable_picker_calls(picker_selected_callback_locks)
        \o Unlock("MY_PROJECT_COMMAND_STATE")

\* the locks of a key's handler: those of the callback, when it calls it
handler_locks(calls, selected_callback) ==
    IF calls # <<>> /\ selected_callback = "project_command"
    THEN picker_selected_callback_locks
    ELSE <<>>

----------------------------------------------------------------------------
(* my_dired.rs: MY_DIRED_STATE and the handlers' use of its mutex.  The    *)
(* dired buffer itself, its lines and the shell commands are left out: a   *)
(* handler gets the item under the cursor and the commands' results as     *)
(* inputs.                                                                 *)

\* directories below the root, as deep as the model goes
MaxDepth == 2
DirNames == {"a"}
Paths == UNION {[1..n -> DirNames] : n \in 0..MaxDepth}

\* last_dired_buffer_dir: "" (String::default) or a path, <<>> being "/"
NoDir == [set |-> FALSE, path |-> <<>>]
SomeDir(path) == [set |-> TRUE, path |-> path]

\* Path::parent: None for "" and for the root
has_parent(dir) == dir.set /\ dir.path # <<>>
parent(dir) == SomeDir(SubSeq(dir.path, 1, Len(dir.path) - 1))

\* `{ let locked_state = MY_DIRED_STATE.lock(); .. }`
dired_state_scope == Lock("MY_DIRED_STATE") \o Unlock("MY_DIRED_STATE")

\* list_directories_into_dired_buffer: when `ls` succeeds the directory is
\* stored, under a guard that lives for that statement
list_directories_into_dired_buffer(state, dir, ls_ok) ==
    IF ls_ok
    THEN [state |-> [state EXCEPT !.last_dired_buffer_dir = dir],
          locks |-> Lock("MY_DIRED_STATE") \o Unlock("MY_DIRED_STATE")]
    ELSE [state |-> state, locks |-> <<>>]

\* my_dired::open, <C-c>j
my_dired_open(state, dir, ls_ok) ==
    list_directories_into_dired_buffer(state, dir, ls_ok)

\* (mutant) the guard is held over the call of
\* list_directories_into_dired_buffer
go_parent_directory_holds_lock(state, ls_ok) ==
    IF ~has_parent(state.last_dired_buffer_dir)
    THEN [state |-> state, locks |-> dired_state_scope]
    ELSE [state |-> list_directories_into_dired_buffer(state,
                        parent(state.last_dired_buffer_dir), ls_ok).state,
          locks |-> Lock("MY_DIRED_STATE")
                      \o list_directories_into_dired_buffer(state,
                             parent(state.last_dired_buffer_dir), ls_ok).locks
                      \o Unlock("MY_DIRED_STATE")]

\* go_parent_directory, h: the state is read in a scope that ends before
\* the call of list_directories_into_dired_buffer
go_parent_directory(state, ls_ok) ==
    IF ~has_parent(state.last_dired_buffer_dir)
    THEN [state |-> state, locks |-> dired_state_scope]
    ELSE [state |-> list_directories_into_dired_buffer(state,
                        parent(state.last_dired_buffer_dir), ls_ok).state,
          locks |-> dired_state_scope
                      \o list_directories_into_dired_buffer(state,
                             parent(state.last_dired_buffer_dir), ls_ok).locks]

\* what get_current_dired_buffer_item gives: nothing, ".", "..", a
\* directory or a file
DiredItems ==
    {[kind |-> "none", name |-> ""], [kind |-> "dir", name |-> "."],
     [kind |-> "dir", name |-> ".."], [kind |-> "file", name |-> "f"]}
        \cup {[kind |-> "dir", name |-> n] : n \in DirNames}

\* open_directory_or_file, l and <CR>
open_directory_or_file(state, item, ls_ok) ==
    IF item.kind = "none" \/ (item.kind = "dir" /\ item.name = ".")
    THEN [state |-> state, locks |-> <<>>]
    ELSE IF item.kind = "dir" /\ item.name = ".."
    THEN IF has_parent(state.last_dired_buffer_dir)
         THEN [state |-> list_directories_into_dired_buffer(state,
                             parent(state.last_dired_buffer_dir), ls_ok).state,
               locks |-> dired_state_scope
                           \o list_directories_into_dired_buffer(state,
                                  parent(state.last_dired_buffer_dir), ls_ok).locks]
         ELSE [state |-> state, locks |-> dired_state_scope]
    ELSE IF item.kind = "dir"
    THEN [state |-> list_directories_into_dired_buffer(state,
                        SomeDir(Append(state.last_dired_buffer_dir.path, item.name)),
                        ls_ok).state,
          locks |-> dired_state_scope
                      \o list_directories_into_dired_buffer(state,
                             SomeDir(Append(state.last_dired_buffer_dir.path, item.name)),
                             ls_ok).locks]
    ELSE [state |-> state, locks |-> dired_state_scope]

DiredActions == {"Create", "Copy", "Rename", "Delete"}

\* run_action_on_dired_buffer_item, A C R D.  in_dired: the dired buffer is
\* the current one; cmd_ok: the shell command of the action succeeded
run_action_on_dired_buffer_item(state, action, in_dired, item, cmd_ok, ls_ok) ==
    IF \/ ~in_dired
       \/ action # "Create" /\ item.kind = "none"
       \/ action # "Create" /\ item.kind = "dir" /\ item.name \in {".", ".."}
    THEN [state |-> state, locks |-> <<>>]
    ELSE IF cmd_ok
    THEN [state |-> list_directories_into_dired_buffer(state,
                        state.last_dired_buffer_dir, ls_ok).state,
          locks |-> dired_state_scope
                      \o list_directories_into_dired_buffer(state,
                             state.last_dired_buffer_dir, ls_ok).locks]
    ELSE [state |-> state, locks |-> dired_state_scope]

----------------------------------------------------------------------------
(* The state machine *)

WindowRoles == {"title", "input", "list"}
Keys == {"<CR>", "<c-j>", "<c-k>", "<c-e>"}

FsErr == [ok |-> FALSE, files |-> <<>>]
FsResults == {FsErr} \cup {[ok |-> TRUE, files |-> l] : l \in ScriptLists}

InitNvim(scr) ==
    [bufs    |-> 1 :> [lines |-> <<"">>, bufhidden |-> ""],
     wins    |-> 1 :> [buf |-> 1, row |-> 1, col |-> 0,
                       cfg |-> [row |-> 0, col |-> 0,
                                width |-> scr.width, height |-> scr.height,
                                border |-> [top |-> FALSE, bottom |-> FALSE]]],
     keymaps |-> [b \in {} |-> 0],
     nextBuf |-> 2,
     nextWin |-> 2,
     curWin  |-> 1,
     prevWin |-> 1,
     mode    |-> "n"]

NoEvent == [op |-> "init", buf |-> 0, handled |-> FALSE]

InitRest ==
    /\ nvim = InitNvim(screen)
    /\ cmd_map = NoState
    /\ executed = <<>>
    /\ opened = <<>>
    /\ cb_log = <<>>
    /\ panicked = FALSE
    /\ last = NoEvent
    /\ dired = [last_dired_buffer_dir |-> NoDir]
    /\ mutex = NoLocks

Init ==
    /\ screen \in Screens
    /\ InitRest

\* what an open leaves for the properties to look at: its arguments, its
\* result, and the range of handles the editor gave out during it
OpenRecord(kind, opts, title, list, before, after, called, ok, handles) ==
    [kind |-> kind, opts |-> opts, title |-> title, list |-> list,
     called |-> called, ok |-> ok,
     title_window_handle |-> handles[1],
     input_window_handle |-> handles[2],
     list_window_handle |-> handles[3],
     first_buf |-> before.nextBuf, end_buf |-> after.nextBuf,
     first_win |-> before.nextWin, end_win |-> after.nextWin]

\* <leader>pc in Normal mode: project_command::open
ProjectCommandOpen ==
    /\ Len(opened) < MaxOpens
    /\ nvim.mode = "n"
    /\ \E fs \in FsResults, buf_fail \in 0..3, win_fail \in SUBSET WindowRoles :
          /\ cmd_map.present => fs = FsErr
          /\ buf_fail # 0 => win_fail = {}
          /\ LET r == open(nvim, screen, cmd_map, fs, buf_fail, win_fail)
             IN  /\ nvim' = r.h
                 /\ cmd_map' = r.state
                 /\ opened' = Append(opened,
                        OpenRecord("project_command", ProjectWindowOpts,
                            ProjectTitle, display_cmd_list(r.state),
                            nvim, r.h, r.called, r.ok,
                            <<r.title_window_handle, r.input_window_handle,
                              r.list_window_handle>>))
    /\ last' = [op |-> "open", buf |-> current_buf(nvim), handled |-> TRUE]
    /\ mutex' = RunLocks(mutex, project_command_open_locks)
    /\ UNCHANGED <<screen, executed, cb_log, panicked, dired>>

\* the key maps the focused buffer carries, and whether they map the key in
\* the current mode
Keymap == nvim.keymaps[current_buf(nvim)]
Bound(key) ==
    /\ current_buf(nvim) \in DOMAIN nvim.keymaps
    /\ <<nvim.mode, key>> \in DOMAIN Keymap.maps

\* The editor delivers a key: the handler mapped to it in the focused buffer
\* runs to its end, callback included; an unmapped key is not the picker's
KeyPress(key) ==
    /\ last' = [op |-> key, buf |-> current_buf(nvim), handled |-> Bound(key)]
    /\ IF Bound(key)
       THEN LET r == run_handler(Keymap.maps[<<nvim.mode, key>>], nvim, Keymap, {})
            IN  IF r.calls = <<>>
                THEN /\ nvim' = r.h
                     /\ UNCHANGED <<cmd_map, executed, cb_log, panicked>>
                ELSE LET c == call_selected_callback(Keymap.selected_callback,
                                  r.h, cmd_map, r.calls[1])
                     IN  /\ nvim' = c.h
                         /\ cb_log' = Append(cb_log,
                                [session |-> r.calls[1].session,
                                 text |-> c.text,
                                 args |-> r.calls[1].args,
                                 wins_alive |-> Cardinality(
                                     {Keymap.title_window_handle,
                                      Keymap.input_window_handle,
                                      Keymap.list_window_handle, nvim.curWin}
                                     \cap DOMAIN r.h.wins)])
                         /\ cmd_map' = c.state
                         /\ executed' = executed \o c.ran
                         /\ panicked' = (panicked \/ c.panic)
       ELSE UNCHANGED <<nvim, cmd_map, executed, cb_log, panicked>>
    /\ mutex' = RunLocks(mutex,
                    IF Bound(key)
                    THEN handler_locks(
                             run_handler(Keymap.maps[<<nvim.mode, key>>], nvim,
                                 Keymap, {}).calls,
                             Keymap.selected_callback)
                    ELSE <<>>)
    /\ UNCHANGED <<screen, opened, dired>>

PressEnter == KeyPress("<CR>")
PressCtrlJ == KeyPress("<c-j>")
PressCtrlK == KeyPress("<c-k>")
PressCtrlE == KeyPress("<c-e>")

\* the user edits the line of a picker's Input window
TypeText ==
    /\ nvim.curWin # 1
    /\ nvim.mode = "i"
    /\ \E t \in TypedTexts :
          nvim' = set_lines(nvim, current_buf(nvim), <<t>>)
    /\ last' = [op |-> "type", buf |-> current_buf(nvim), handled |-> FALSE]
    /\ mutex' = RunLocks(mutex, <<>>)
    /\ UNCHANGED <<screen, cmd_map, executed, opened, cb_log, panicked, dired>>

\* <Esc>, and i
Escape ==
    /\ nvim.mode = "i"
    /\ nvim' = stopinsert(nvim)
    /\ last' = [op |-> "<Esc>", buf |-> current_buf(nvim), handled |-> FALSE]
    /\ mutex' = RunLocks(mutex, <<>>)
    /\ UNCHANGED <<screen, cmd_map, executed, opened, cb_log, panicked, dired>>

Insert ==
    /\ nvim.mode = "n"
    /\ nvim' = startinsert(nvim)
    /\ last' = [op |-> "i", buf |-> current_buf(nvim), handled |-> FALSE]
    /\ mutex' = RunLocks(mutex, <<>>)
    /\ UNCHANGED <<screen, cmd_map, executed, opened, cb_log, panicked, dired>>

Next ==
    \/ ProjectCommandOpen
    \/ PressEnter
    \/ PressCtrlJ
    \/ PressCtrlK
    \/ PressCtrlE
    \/ TypeText
    \/ Escape
    \/ Insert

Spec == Init /\ [][Next]_vars

----------------------------------------------------------------------------
(* The pickers opened directly, as run_test_picker and run_test_picker_2   *)
(* do, over the window options, titles, lists and screens of the bounds    *)

\* ratios are n / 2^RatioBits, from below 0 to above 1; these and their
\* products with a screen size are exact in f32
RatioBits == 2
RatioDen == 2 ^ RatioBits
Ratios == {NoRatio} \cup {SomeRatio(n, RatioDen) : n \in (-1)..(RatioDen + 1)}

Borders == {"None", "Rounded"}

WindowOpts ==
    [border : Borders,
     window_width_ratio : Ratios, window_height_ratio : Ratios,
     auto_width : BOOLEAN, auto_height : BOOLEAN]

Titles == {"", "Title"}
Lists == {<<>>, <<"">>, <<"ab">>, <<"abcdefg", "x">>, <<"x", "abcdefg", "yz">>}

LayoutScreens == {[width |-> w, height |-> ht] : w \in {7, 10, 80}, ht \in {5, 24}}

InitLayout ==
    /\ screen \in LayoutScreens
    /\ InitRest

\* create_editable_picker_with_options called with any options
EditablePickerOpen ==
    /\ opened = <<>>
    /\ \E opts \in WindowOpts, title \in Titles, list \in Lists,
          win_fail \in {{}, WindowRoles} :
          LET r == create_editable_picker_with_options(nvim, screen, opts,
                       title, list, "run_test_picker_2", 0, win_fail)
          IN  /\ nvim' = r.h
              /\ opened' = Append(opened,
                     OpenRecord("editable", opts, title, list, nvim, r.h,
                         TRUE, r.ok,
                         <<r.title_window_handle, r.input_window_handle,
                           r.list_window_handle>>))
    /\ last' = [op |-> "open", buf |-> current_buf(nvim), handled |-> TRUE]
    /\ mutex' = RunLocks(mutex, <<>>)
    /\ UNCHANGED <<screen, cmd_map, executed, cb_log, panicked, dired>>

\* create_picker_with_options called with any options
PickerOpen ==
    /\ opened = <<>>
    /\ \E opts \in WindowOpts, list \in Lists, win_fail \in BOOLEAN :
          LET r == create_picker_with_options(nvim, screen, opts, list,
                       "run_test_picker", FALSE, win_fail)
          IN  /\ nvim' = r.h
              /\ opened' = Append(opened,
                     OpenRecord("picker", opts, "", list, nvim, r.h,
                         TRUE, r.ok,
                         <<-1, -1, IF win_fail THEN -1 ELSE nvim.nextWin>>))
    /\ last' = [op |-> "open", buf |-> current_buf(nvim), handled |-> TRUE]
    /\ mutex' = RunLocks(mutex, <<>>)
    /\ UNCHANGED <<screen, cmd_map, executed, cb_log, panicked, dired>>

NextLayout ==
    \/ EditablePickerOpen
    \/ PickerOpen

SpecLayout == InitLayout /\ [][NextLayout]_vars

----------------------------------------------------------------------------
(* The single-window picker in use: run_test_picker and the keys of the    *)
(* picker buffer                                                           *)

\* the options run_test_picker passes
RunTestPickerOpts ==
    [border |-> "Rounded",
     window_width_ratio |-> NoRatio, window_height_ratio |-> NoRatio,
     auto_width |-> TRUE, auto_height |-> TRUE]

\* the list of run_test_picker, and other lists in its place
PickerLists == {<<"./build.sh", "./build_release.sh">>, <<"a", "b", "c">>, <<>>}

\* run_test_picker: create_picker_with_options with the closure that reads
\* the current line and closes the picker window
RunTestPicker ==
    /\ Len(opened) < MaxOpens
    /\ nvim.mode = "n"
    /\ \E list \in PickerLists, buf_fail \in BOOLEAN, win_fail \in BOOLEAN :
          /\ buf_fail => ~win_fail
          /\ LET r == create_picker_with_options(nvim, screen, RunTestPickerOpts,
                          list, "run_test_picker", buf_fail, win_fail)
             IN  /\ nvim' = r.h
                 /\ opened' = Append(opened,
                        OpenRecord("picker", RunTestPickerOpts, "", list, nvim,
                            r.h, TRUE, r.ok,
                            <<-1, -1,
                              IF buf_fail \/ win_fail THEN -1 ELSE nvim.nextWin>>))
    /\ last' = [op |-> "open", buf |-> current_buf(nvim), handled |-> TRUE]
    /\ mutex' = RunLocks(mutex, <<>>)
    /\ UNCHANGED <<screen, cmd_map, executed, cb_log, panicked, dired>>

NextPicker ==
    \/ RunTestPicker
    \/ PressEnter
    \/ PressCtrlJ
    \/ PressCtrlK
    \/ PressCtrlE
    \/ Escape
    \/ Insert

SpecPicker == Init /\ [][NextPicker]_vars

----------------------------------------------------------------------------
(* The editable picker opened by <leader>tp: run_test_picker_2, whose       *)
(* callback only prints                                                    *)

\* how many of the six items of run_test_picker_2 the model keeps
MaxItems == 2

TestPicker2Title == "Project Command ('Ctrl+d' to delete item, 'tab' to fill input)"

TestPicker2Items ==
    <<"11111", "22222", "33333", "44444", "./build.sh", "./build_release.sh">>

TestPicker2List == SubSeq(TestPicker2Items, 1, MaxItems)

TestPicker2Opts ==
    [border |-> "Rounded",
     window_width_ratio |-> NoRatio, window_height_ratio |-> NoRatio,
     auto_width |-> TRUE, auto_height |-> TRUE]

\* <leader>tp in Normal mode: run_test_picker_2
RunTestPicker2 ==
    /\ Len(opened) < MaxOpens
    /\ nvim.mode = "n"
    /\ \E buf_fail \in {0, 3}, win_fail \in {{}, {"list"}} :
          /\ buf_fail # 0 => win_fail = {}
          /\ LET r == create_editable_picker_with_options(nvim, screen,
                          TestPicker2Opts, TestPicker2Title, TestPicker2List,
                          "run_test_picker_2", buf_fail, win_fail)
             IN  /\ nvim' = r.h
                 /\ opened' = Append(opened,
                        OpenRecord("editable", TestPicker2Opts, TestPicker2Title,
                            TestPicker2List, nvim, r.h, TRUE, r.ok,
                            <<r.title_window_handle, r.input_window_handle,
                              r.list_window_handle>>))
    /\ last' = [op |-> "open", buf |-> current_buf(nvim), handled |-> TRUE]
    /\ mutex' = RunLocks(mutex, <<>>)
    /\ UNCHANGED <<screen, cmd_map, executed, cb_log, panicked, dired>>

NextSessions ==
    \/ RunTestPicker2
    \/ PressEnter
    \/ PressCtrlJ
    \/ PressCtrlK
    \/ PressCtrlE
    \/ TypeText
    \/ Escape
    \/ Insert

SpecSessions == Init /\ [][NextSessions]_vars

----------------------------------------------------------------------------
(* The same picker when the editor refuses a call of <c-j>/<c-k>           *)

\* the calls ctrl_jk_callback makes to the editor
HostCalls == {"get_cursor", "get_buf", "get_lines", "set_lines", "line_count",
              "set_cursor"}

\* <c-j> or <c-k> during which one call to the editor returns Err
NavigateFailing ==
    \E key \in {"<c-j>", "<c-k>"}, f \in HostCalls :
        /\ Bound(key)
        /\ Keymap.maps[<<nvim.mode, key>>] \in {"ctrl_j", "ctrl_k"}
        /\ nvim' = run_handler(Keymap.maps[<<nvim.mode, key>>], nvim, Keymap, {f}).h
        /\ last' = [op |-> key, buf |-> current_buf(nvim), handled |-> TRUE,
                    failed |-> f]
        /\ mutex' = RunLocks(mutex, <<>>)
        /\ UNCHANGED <<screen, cmd_map, executed, opened, cb_log, panicked, dired>>

NextFaults ==
    \/ RunTestPicker2
    \/ PressEnter
    \/ PressCtrlJ
    \/ PressCtrlK
    \/ PressCtrlE
    \/ NavigateFailing
    \/ TypeText
    \/ Escape
    \/ Insert

SpecFaults == Init /\ [][NextFaults]_vars

----------------------------------------------------------------------------
(* The handlers that lock a module state: the project command picker and   *)
(* my_dired (SpecLocks)                                                    *)

\* the dired buffer's maps are buffer-local: its keys do not reach a picker
InPickerBuffer == current_buf(nvim) \in DOMAIN nvim.keymaps

DiredEvent(op) == [op |-> op, buf |-> current_buf(nvim), handled |-> FALSE]

\* <C-c>j in Normal mode: my_dired::open
DiredOpen ==
    /\ nvim.mode = "n"
    /\ \E p \in Paths, ls_ok \in BOOLEAN :
          /\ dired' = my_dired_open(dired, SomeDir(p), ls_ok).state
          /\ mutex' = RunLocks(mutex, my_dired_open(dired, SomeDir(p), ls_ok).locks)
    /\ last' = DiredEvent("<C-c>j")
    /\ UNCHANGED <<nvim, screen, cmd_map, executed, opened, cb_log, panicked>>

\* h in the dired buffer: go_parent_directory
DiredGoParent ==
    /\ nvim.mode = "n"
    /\ ~InPickerBuffer
    /\ \E ls_ok \in BOOLEAN :
          /\ dired' = go_parent_directory(dired, ls_ok).state
          /\ mutex' = RunLocks(mutex, go_parent_directory(dired, ls_ok).locks)
    /\ last' = DiredEvent("h")
    /\ UNCHANGED <<nvim, screen, cmd_map, executed, opened, cb_log, panicked>>

\* l (or <CR>) in the dired buffer: open_directory_or_file
DiredOpenItem ==
    /\ nvim.mode = "n"
    /\ ~InPickerBuffer
    /\ \E item \in DiredItems, ls_ok \in BOOLEAN :
          /\ (item.kind = "dir" /\ item.name \in DirNames) =>
                 Len(dired.last_dired_buffer_dir.path) < MaxDepth
          /\ dired' = open_directory_or_file(dired, item, ls_ok).state
          /\ mutex' = RunLocks(mutex, open_directory_or_file(dired, item, ls_ok).locks)
    /\ last' = DiredEvent("l")
    /\ UNCHANGED <<nvim, screen, cmd_map, executed, opened, cb_log, panicked>>

\* A, C, R or D in the dired buffer: run_action_on_dired_buffer_item
DiredAction ==
    /\ nvim.mode = "n"
    /\ ~InPickerBuffer
    /\ \E action \in DiredActions, in_dired \in BOOLEAN, item \in DiredItems,
          cmd_ok \in BOOLEAN, ls_ok \in BOOLEAN :
          /\ dired' = run_action_on_dired_buffer_item(dired, action, in_dired,
                          item, cmd_ok, ls_ok).state
          /\ mutex' = RunLocks(mutex,
                          run_action_on_dired_buffer_item(dired, action, in_dired,
                              item, cmd_ok, ls_ok).locks)
    /\ last' = DiredEvent("A")
    /\ UNCHANGED <<nvim, screen, cmd_map, executed, opened, cb_log, panicked>>

\* the pickers SpecLocks follows
MaxLockSessions == 1

\* <leader>pc, as ProjectCommandOpen
LockingOpen ==
    /\ Len(opened) < MaxLockSessions
    /\ ProjectCommandOpen

NextLocks ==
    \/ LockingOpen
    \/ PressEnter
    \/ PressCtrlJ
    \/ PressCtrlK
    \/ PressCtrlE
    \/ Escape
    \/ Insert
    \/ DiredOpen
    \/ DiredGoParent
    \/ DiredOpenItem
    \/ DiredAction

SpecLocks == Init /\ [][NextLocks]_vars

----------------------------------------------------------------------------
(* Properties of the editable picker's sessions (Spec) *)

Opens == 1..Len(opened)

\* open returned Ok with its three windows open and its key maps set
Armed(i) ==
    /\ opened[i].ok
    /\ opened[i].title_window_handle # -1
    /\ opened[i].input_window_handle # -1
    /\ opened[i].list_window_handle # -1

SessionWindows(i) ==
    {opened[i].title_window_handle, opened[i].input_window_handle,
     opened[i].list_window_handle}

SessionBuffers(i) == opened[i].first_buf .. (opened[i].end_buf - 1)

\* an armed session whose Input window is gone: committed or cancelled
ClosedIn(i, h) == Armed(i) /\ opened[i].input_window_handle \notin DOMAIN h.wins
Closed(i) == ClosedIn(i, nvim)

\* the session's windows, buffers and key maps are gone from editor h
Destroyed(i, h) ==
    /\ SessionWindows(i) \cap DOMAIN h.wins = {}
    /\ SessionBuffers(i) \cap DOMAIN h.bufs = {}
    /\ SessionBuffers(i) \cap DOMAIN h.keymaps = {}

\* the session whose Input buffer has the focus (when a key is handled)
Focused == CHOOSE i \in Opens : opened[i].input_window_handle = Keymap.input_window_handle

CallsOf(i, log) == {k \in 1..Len(log) : log[k].session = opened[i].input_window_handle}

InputText == nvim.bufs[Keymap.input_buffer_handle].lines[1]

\* C1: over every sequence of events after open, the selection callback of a
\* session is invoked at most once, and a callback is invoked only by a
\* handled <CR> (Commit), which adds exactly one invocation.
C1_CallbackAtMostOnce ==
    /\ [](\A k, l \in 1..Len(cb_log) :
             cb_log[k].session = cb_log[l].session => k = l)
    /\ [][cb_log' # cb_log =>
             /\ last'.op = "<CR>"
             /\ last'.handled
             /\ Len(cb_log') = Len(cb_log) + 1
             /\ SubSeq(cb_log', 1, Len(cb_log)) = cb_log]_vars

\* a session was committed, and a further <CR> was delivered after it
C1_Witness ==
    /\ Len(cb_log) = 1
    /\ Closed(1)
    /\ last.op = "<CR>"
    /\ ~last.handled

\* C2: a handled <c-e> (Cancel) invokes no callback, destroys the Title,
\* Input and List surfaces, and leaves cmd_list and default_cmd_index as
\* they were.
C2_CancelSkipsCallback ==
    [][(last'.op = "<c-e>" /\ last'.handled) =>
          /\ cb_log' = cb_log
          /\ executed' = executed
          /\ cmd_map' = cmd_map
          /\ Destroyed(Focused, nvim')]_vars

\* cancelled after navigating and with a typed text in the Input
C2_Witness ==
    /\ last.op = "<c-e>"
    /\ last.handled
    /\ Closed(1)
    /\ cb_log = <<>>
    /\ Len(cmd_map.cmd_list) = 2

\* C3: a handled <CR> fires the callback exactly once, with the Input text;
\* a non-empty text absent from cmd_list is appended at its end, nothing
\* else changing; a text already in cmd_list leaves cmd_list as it was.
C3_CommitAppendsOnce ==
    [][(last'.op = "<CR>" /\ last'.handled) =>
          /\ Len(cb_log') = Len(cb_log) + 1
          /\ SubSeq(cb_log', 1, Len(cb_log)) = cb_log
          /\ cb_log'[Len(cb_log')].text = InputText
          /\ CallsOf(Focused, cb_log') = {Len(cb_log')}
          /\ (InputText # "" /\ ~Contains(cmd_map.cmd_list, InputText)) =>
                cmd_map'.cmd_list = Append(cmd_map.cmd_list, InputText)
          /\ (InputText # "" /\ Contains(cmd_map.cmd_list, InputText)) =>
                cmd_map'.cmd_list = cmd_map.cmd_list]_vars

\* "x" committed on top of two script files
C3_Witness ==
    /\ last.op = "<CR>"
    /\ last.handled
    /\ cmd_map.cmd_list = <<"./a.sh", "./b.sh", "x">>
    /\ cb_log[Len(cb_log)].text = "x"

\* C4: a handled <CR> or <c-e> leaves its session Closed, its windows,
\* buffers and key maps gone; a Closed session stays so and is called back
\* no more; closing one of its windows again changes nothing; and once no
\* session is open, a key changes nothing and no handler fails.
C4_ClosedIsFinal ==
    /\ [][(last'.handled /\ last'.op \in {"<CR>", "<c-e>"}) =>
             (ClosedIn(Focused, nvim') /\ Destroyed(Focused, nvim'))]_vars
    /\ [][\A i \in Opens : Closed(i) =>
             /\ ClosedIn(i, nvim')
             /\ Destroyed(i, nvim')
             /\ CallsOf(i, cb_log') = CallsOf(i, cb_log)]_vars
    /\ [](\A i \in Opens : Closed(i) =>
             \A w \in SessionWindows(i) : win_close(nvim, w) = nvim)
    /\ [][(last'.op \in Keys /\ \A i \in Opens : Armed(i) => Closed(i)) =>
             /\ ~last'.handled
             /\ UNCHANGED <<nvim, cmd_map, executed, cb_log, panicked>>]_vars
    /\ []~panicked

\* a key delivered after the only session was closed
C4_Witness ==
    /\ Len(opened) = 1
    /\ Closed(1)
    /\ last.op \in Keys
    /\ ~last.handled

\* the list as the session shows it, and the row of the List window's cursor
Items(i) == opened[i].list
CursorRow(i, h) == h.wins[opened[i].list_window_handle].row
InputOf(i, h) == h.bufs[h.wins[opened[i].input_window_handle].buf].lines

\* C5: a handled <c-j> from row r < item_count moves the cursor to r + 1 and
\* replaces the Input's content by item r + 1; from r = item_count it
\* changes nothing.
C5_CursorDown ==
    [][(last'.op = "<c-j>" /\ last'.handled) =>
          LET i == Focused
              r == CursorRow(i, nvim)
          IN  /\ r < Len(Items(i)) =>
                    /\ CursorRow(i, nvim') = r + 1
                    /\ InputOf(i, nvim') = <<Items(i)[r + 1]>>
              /\ r = Len(Items(i)) =>
                    /\ nvim' = nvim
                    /\ UNCHANGED <<cmd_map, executed, cb_log, panicked>>]_vars

\* <c-j> at the last row, with a typed text in the Input that stayed
C5_Witness ==
    /\ last.op = "<c-j>"
    /\ last.handled
    /\ Armed(1) /\ ~Closed(1)
    /\ Len(Items(1)) = 2
    /\ CursorRow(1, nvim) = 2
    /\ InputOf(1, nvim) = <<"x">>

\* C6 as claimed: an open that failed at a buffer leaves none of the buffers
\* it created.
C6_FailedOpenLeavesNoBuffer ==
    \A i \in Opens :
        (opened[i].called /\ ~opened[i].ok) =>
            SessionBuffers(i) \cap DOMAIN nvim.bufs = {}

\* C7 as claimed: an open during which a window was refused returns an error
\* and leaves no window and no buffer of the picker.
C7_RefusedWindowFailsOpen ==
    \A i \in Opens :
        (/\ opened[i].called
         /\ opened[i].end_buf = opened[i].first_buf + 3
         /\ -1 \in SessionWindows(i)) =>
            /\ ~opened[i].ok
            /\ SessionBuffers(i) \cap DOMAIN nvim.bufs = {}
            /\ (opened[i].first_win .. (opened[i].end_win - 1))
                   \cap DOMAIN nvim.wins = {}

----------------------------------------------------------------------------
(* Properties of the layout (SpecLayout) *)

\* a ratio in (0, 1]
InUnit(r) == r.some /\ r.num > 0 /\ r.num <= r.den

\* floor(n * r) for a ratio r = num/den, n >= 0
FloorOf(n, r) == CHOOSE k \in 0..n : k * r.den <= n * r.num /\ n * r.num < (k + 1) * r.den

\* the windows open record i opened
WindowsOf(i) == SessionWindows(i) \ {-1}

\* C8 as claimed: an open with a ratio outside (0, 1] returns an error and
\* has created no buffer and no window.
C8_BadRatioRejected ==
    \A i \in Opens :
        (\/ opened[i].opts.window_width_ratio.some
               /\ ~InUnit(opened[i].opts.window_width_ratio)
         \/ opened[i].opts.window_height_ratio.some
               /\ ~InUnit(opened[i].opts.window_height_ratio)) =>
            /\ ~opened[i].ok
            /\ opened[i].end_buf = opened[i].first_buf
            /\ opened[i].end_win = opened[i].first_win

\* C9: with a width ratio in (0, 1] every window of the picker is
\* floor(screen.width * ratio) wide; with a height ratio in (0, 1] the
\* layout height (the window height of the single-window picker) is
\* floor(screen.height * ratio); with neither ratio nor auto-fit the ratio
\* is 1/2.
C9_FixedRatioSize ==
    \A i \in Opens :
        LET o == opened[i].opts
            wr == IF o.window_width_ratio.some THEN o.window_width_ratio
                  ELSE SomeRatio(1, 2)
            hr == IF o.window_height_ratio.some THEN o.window_height_ratio
                  ELSE SomeRatio(1, 2)
        IN  /\ (InUnit(o.window_width_ratio)
                  \/ (~o.window_width_ratio.some /\ ~o.auto_width)) =>
                   \A w \in WindowsOf(i) :
                       nvim.wins[w].cfg.width = FloorOf(screen.width, wr)
            /\ (InUnit(o.window_height_ratio)
                  \/ (~o.window_height_ratio.some /\ ~o.auto_height)) =>
                   /\ opened[i].kind = "editable" =>
                          editable_picker_layout(o, opened[i].title,
                              opened[i].list, screen).height
                            = FloorOf(screen.height, hr)
                   /\ opened[i].kind = "picker" =>
                          \A w \in WindowsOf(i) :
                              nvim.wins[w].cfg.height = FloorOf(screen.height, hr)

\* three windows whose width is a floor that rounds down, on a picker that
\* also has a height ratio
C9_Witness ==
    /\ Len(opened) = 1
    /\ opened[1].kind = "editable"
    /\ Cardinality(WindowsOf(1)) = 3
    /\ InUnit(opened[1].opts.window_width_ratio)
    /\ InUnit(opened[1].opts.window_height_ratio)
    /\ (screen.width * opened[1].opts.window_width_ratio.num)
           % opened[1].opts.window_width_ratio.den # 0
    /\ \A w \in WindowsOf(1) :
           nvim.wins[w].cfg.width * opened[1].opts.window_width_ratio.den
               < screen.width * opened[1].opts.window_width_ratio.num

\* C10 as claimed, for the pickers that have a title: with auto_width and no
\* width ratio the three windows of the editable picker are
\* max(title.len(), longest item) + 4 wide, whatever the list, empty or not.
C10_AutoWidth ==
    \A i \in Opens :
        (/\ opened[i].kind = "editable"
         /\ opened[i].title # ""
         /\ opened[i].opts.auto_width
         /\ ~opened[i].opts.window_width_ratio.some) =>
            \A w \in WindowsOf(i) :
                nvim.wins[w].cfg.width =
                    max_line_len(opened[i].list, 1, Len(opened[i].title)) + 4

Abs(x) == IF x < 0 THEN 0 - x ELSE x

\* the window whose row is the top of the picker, when it was opened
TopWindows(i) ==
    (IF opened[i].kind = "picker" THEN {opened[i].list_window_handle}
     ELSE {opened[i].title_window_handle}) \ {-1}

\* the cells the border adds to the width, and to the height of the layout
BorderWidth(i) == IF opened[i].opts.border = "None" THEN 0 ELSE 2
BorderHeight(i) ==
    IF opened[i].opts.border = "None" THEN 0
    ELSE IF opened[i].kind = "picker" THEN 2 ELSE 4

\* the layout height under a height ratio
RatioHeight(i) == FloorOf(screen.height, opened[i].opts.window_height_ratio)

\* C11 as claimed: under a ratio in (0, 1], col + width/2 is within one cell
\* of screen.width/2 and row + height/2 within one cell of screen.height/2,
\* whatever the border (the halves are kept exact by doubling both sides).
C11_CenteredByWidth ==
    \A i \in Opens :
        /\ InUnit(opened[i].opts.window_width_ratio) =>
               \A w \in WindowsOf(i) :
                   Abs(2 * nvim.wins[w].cfg.col + nvim.wins[w].cfg.width
                           - screen.width) <= 2
        /\ InUnit(opened[i].opts.window_height_ratio) =>
               \A w \in TopWindows(i) :
                   Abs(2 * nvim.wins[w].cfg.row + RatioHeight(i)
                           - screen.height) <= 2

\* C11, amended: under a ratio in (0, 1] it is the bordered box that is
\* centred: with effective width = width + border cells (2, or 0 without
\* border), col + effective/2 is within one cell of screen.width/2 when the
\* box fits the screen, and col = 0 when it does not; likewise row with the
\* effective height (height + 2 in the single-window picker, + 4 in the
\* editable one).
C11_CenteredByEffectiveSize ==
    \A i \in Opens :
        /\ InUnit(opened[i].opts.window_width_ratio) =>
               \A w \in WindowsOf(i) :
                   LET ew == nvim.wins[w].cfg.width + BorderWidth(i)
                   IN  IF ew <= screen.width
                       THEN Abs(2 * nvim.wins[w].cfg.col + ew - screen.width) <= 2
                       ELSE nvim.wins[w].cfg.col = 0
        /\ InUnit(opened[i].opts.window_height_ratio) =>
               \A w \in TopWindows(i) :
                   LET eh == RatioHeight(i) + BorderHeight(i)
                   IN  IF eh <= screen.height
                       THEN Abs(2 * nvim.wins[w].cfg.row + eh - screen.height) <= 2
                       ELSE nvim.wins[w].cfg.row = 0

\* a bordered editable picker whose content is more than a cell left of the
\* centre, and whose box is higher than the screen
C11_Witness ==
    /\ Len(opened) = 1
    /\ opened[1].kind = "editable"
    /\ opened[1].opts.border = "Rounded"
    /\ InUnit(opened[1].opts.window_width_ratio)
    /\ InUnit(opened[1].opts.window_height_ratio)
    /\ Cardinality(WindowsOf(1)) = 3
    /\ \A w \in WindowsOf(1) :
           2 * nvim.wins[w].cfg.col + nvim.wins[w].cfg.width - screen.width < -2
    /\ RatioHeight(1) + 4 > screen.height
    /\ nvim.wins[opened[1].title_window_handle].cfg.row = 0

\* the height of a window of open i
HeightOf(w) == nvim.wins[w].cfg.height

\* C12: in the editable picker the Title and the Input window are 1 high
\* and the List window is as high as the item list, 1 for the empty list,
\* whatever the ratios, the auto-fit flags and the border.
C12_ListHeight ==
    \A i \in Opens :
        (opened[i].kind = "editable" /\ Cardinality(WindowsOf(i)) = 3) =>
            /\ HeightOf(opened[i].title_window_handle) = 1
            /\ HeightOf(opened[i].input_window_handle) = 1
            /\ Len(opened[i].list) >= 1 =>
                   HeightOf(opened[i].list_window_handle) = Len(opened[i].list)
            /\ Len(opened[i].list) = 0 =>
                   HeightOf(opened[i].list_window_handle) = 1

\* an empty list under a fixed height ratio: the List window is 1 high
C12_Witness ==
    /\ Len(opened) = 1
    /\ opened[1].kind = "editable"
    /\ opened[1].list = <<>>
    /\ InUnit(opened[1].opts.window_height_ratio)
    /\ Cardinality(WindowsOf(1)) = 3
    /\ HeightOf(opened[1].list_window_handle) = 1

\* the height editable open i used for its layout, and the heights of its
\* three windows added up
LayoutHeight(i) ==
    editable_picker_layout(opened[i].opts, opened[i].title, opened[i].list,
        screen).height
StackHeight(i) ==
    HeightOf(opened[i].title_window_handle)
        + HeightOf(opened[i].input_window_handle)
        + HeightOf(opened[i].list_window_handle)

\* open i is an editable picker with auto height in force and its windows open
AutoHeight(i) ==
    /\ opened[i].kind = "editable"
    /\ opened[i].opts.auto_height
    /\ ~opened[i].opts.window_height_ratio.some
    /\ Cardinality(WindowsOf(i)) = 3

\* C13 as claimed: with auto height the layout height is item_count + 2 and
\* is the sum of the heights of the Title, Input and List windows, for every
\* item_count >= 0.
C13_AutoHeightIsStackHeight ==
    \A i \in Opens :
        AutoHeight(i) =>
            /\ LayoutHeight(i) = Len(opened[i].list) + 2
            /\ LayoutHeight(i) = StackHeight(i)

\* C13, amended: with auto height the layout height is item_count + 2 for
\* every item_count >= 0; it is the sum of the heights of the three windows
\* for item_count >= 1, and one less than that sum (2 against 3) for the
\* empty list.
C13_AutoHeight ==
    \A i \in Opens :
        AutoHeight(i) =>
            /\ LayoutHeight(i) = Len(opened[i].list) + 2
            /\ Len(opened[i].list) >= 1 => LayoutHeight(i) = StackHeight(i)
            /\ Len(opened[i].list) = 0 =>
                   LayoutHeight(i) = 2 /\ StackHeight(i) = 3

\* auto height on a three-item list: 5 lines, the windows 1 + 1 + 3 high
C13_Witness ==
    /\ Len(opened) = 1
    /\ AutoHeight(1)
    /\ Len(opened[1].list) = 3
    /\ LayoutHeight(1) = 5
    /\ StackHeight(1) = 5

----------------------------------------------------------------------------
(* More properties of the editable picker's sessions (Spec) *)

C17_CursorUpReadsBehind ==
    [][(last'.op = "<c-k>" /\ last'.handled) =>
          LET i == Focused
              r == CursorRow(i, nvim)
          IN  r >= 2 =>
                  /\ CursorRow(i, nvim') = r - 1
                  /\ InputOf(i, nvim') # <<Items(i)[r - 1]>>
                  /\ r >= 3 => InputOf(i, nvim') = <<Items(i)[r - 2]>>]_vars

\* C17, amended: a handled <c-k> from row r >= 2 moves the cursor to r - 1
\* and replaces the Input's content by item r - 1, the item at the new row,
\* as <c-j> does for the row it moves to.
C17_CursorUp ==
    [][(last'.op = "<c-k>" /\ last'.handled) =>
          LET i == Focused
              r == CursorRow(i, nvim)
          IN  r >= 2 =>
                  /\ CursorRow(i, nvim') = r - 1
                  /\ InputOf(i, nvim') = <<Items(i)[r - 1]>>]_vars

\* <c-k> from the third to the second of three items
C17_Witness ==
    /\ last.op = "<c-k>"
    /\ last.handled
    /\ Len(opened) = 2
    /\ Armed(2) /\ ~Closed(2)
    /\ Len(Items(2)) = 3
    /\ CursorRow(2, nvim) = 2
    /\ InputOf(2, nvim) = <<Items(2)[2]>>

\* the sessions whose windows are open
Active(i) == Armed(i) /\ ~Closed(i)

\* <c-k> with the cursor on the first row changes nothing
UpAtFirstRowIsNoOp ==
    (/\ last'.op = "<c-k>"
     /\ last'.handled
     /\ CursorRow(Focused, nvim) = 1) =>
        /\ nvim' = nvim
        /\ UNCHANGED <<cmd_map, executed, cb_log, panicked>>

\* C18 as claimed: the cursor row of an Active session is in
\* [1, item_count] at all times, and a handled <c-k> on row 1 changes
\* neither the row nor the Input.
C18_CursorInItems ==
    /\ [](\A i \in Opens : Active(i) =>
             (1 <= CursorRow(i, nvim) /\ CursorRow(i, nvim) <= Len(Items(i))))
    /\ [][UpAtFirstRowIsNoOp]_vars

\* C18, amended: the cursor row of an Active session is in [1, item_count]
\* at all times when the list has items, and is 1 when the list is empty
\* (the List window then shows one empty line); a handled <c-k> on row 1
\* changes neither the row nor the Input.
C18_CursorInLines ==
    /\ [](\A i \in Opens : Active(i) =>
             /\ 1 <= CursorRow(i, nvim)
             /\ CursorRow(i, nvim) <= Max(Len(Items(i)), 1))
    /\ [][UpAtFirstRowIsNoOp]_vars

\* <c-k> on the first row of a two-item list, a typed text staying in the
\* Input
C18_Witness ==
    /\ last.op = "<c-k>"
    /\ last.handled
    /\ Len(opened) = 1
    /\ Active(1)
    /\ Len(Items(1)) = 2
    /\ CursorRow(1, nvim) = 1
    /\ InputOf(1, nvim) = <<"x">>

\* C19: a handled <CR> on an empty Input invokes the callback once, with
\* the empty string, and cmd_list stays as it was, with no blank entry in it.
C19_EmptyCommit ==
    [][(last'.op = "<CR>" /\ last'.handled /\ InputText = "") =>
          /\ Len(cb_log') = Len(cb_log) + 1
          /\ SubSeq(cb_log', 1, Len(cb_log)) = cb_log
          /\ cb_log'[Len(cb_log')].args = [selected_text |-> ""]
          /\ cmd_map'.cmd_list = cmd_map.cmd_list
          /\ ~Contains(cmd_map'.cmd_list, "")]_vars

\* an empty commit on a list of two scripts, which ran the first of them
C19_Witness ==
    /\ last.op = "<CR>"
    /\ last.handled
    /\ Len(cb_log) = 1
    /\ cb_log[1].text = ""
    /\ cmd_map.cmd_list = <<"./a.sh", "./b.sh">>
    /\ executed = <<"./a.sh">>

\* the Input of session i shows the item the List cursor is on
InputShowsCursorItem(i, h) ==
    /\ CursorRow(i, h) <= Len(Items(i))
    /\ InputOf(i, h) = <<Items(i)[CursorRow(i, h)]>>

Navigation == {"<c-j>", "<c-k>"}

\* C25: a handled <c-j> or <c-k> that changes the cursor row leaves in the
\* Input the item at the new row; a <CR> handled right after a navigation
\* that left the Input so calls back with the item the List cursor is on.
C25_InputFollowsCursor ==
    /\ [][(last'.op \in Navigation /\ last'.handled
              /\ CursorRow(Focused, nvim') # CursorRow(Focused, nvim)) =>
             InputShowsCursorItem(Focused, nvim')]_vars
    /\ [][(/\ last'.op = "<CR>" /\ last'.handled
           /\ last.op \in Navigation /\ last.handled
           /\ InputShowsCursorItem(Focused, nvim)) =>
             /\ Len(cb_log') = Len(cb_log) + 1
             /\ cb_log'[Len(cb_log')].args =
                    [selected_text |-> Items(Focused)[CursorRow(Focused, nvim)]]]_vars

\* <c-j> to the second script, then <CR>: the callback got it and ran it
C25_Witness ==
    /\ last.op = "<CR>"
    /\ last.handled
    /\ Len(opened) = 1
    /\ Items(1) = <<"./a.sh", "./b.sh">>
    /\ Len(cb_log) = 1
    /\ cb_log[1].args = [selected_text |-> "./b.sh"]
    /\ executed = <<"./b.sh">>

\* the stored index, when there is one, is an index of cmd_list
ValidIndex(state) ==
    state.default_cmd_index.some =>
        /\ 0 <= state.default_cmd_index.idx
        /\ state.default_cmd_index.idx < Len(state.cmd_list)

\* C26: default_cmd_index is None or a valid (zero-based) index of cmd_list
\* in every reachable state, and no handler indexes cmd_list out of bounds;
\* after a handled <CR> that ran command c it is the index of the first c in
\* cmd_list; a <CR> that ran nothing, a <c-e> and an open leave it as it was.
C26_DefaultIndexValid ==
    /\ [](ValidIndex(cmd_map) /\ ~panicked)
    /\ [][(last'.op = "<CR>" /\ last'.handled /\ executed' # executed) =>
             LET c == executed'[Len(executed')]
                 k == cmd_map'.default_cmd_index.idx
             IN  /\ Len(executed') = Len(executed) + 1
                 /\ cmd_map'.default_cmd_index.some
                 /\ cmd_map'.cmd_list[k + 1] = c
                 /\ \A j \in 1..k : cmd_map'.cmd_list[j] # c]_vars
    /\ [][executed' = executed =>
             cmd_map'.default_cmd_index = cmd_map.default_cmd_index]_vars

\* "x" committed on two scripts after the first was the default: the index
\* moved from 0 to 2
C26_Witness ==
    /\ last.op = "<CR>"
    /\ last.handled
    /\ executed = <<"./a.sh", "x">>
    /\ cmd_map.cmd_list = <<"./a.sh", "./b.sh", "x">>
    /\ cmd_map.default_cmd_index = SomeIndex(2)

\* the lines of the List window of a picker, and where a command is stored
ShownList(h, list_window_handle) == h.bufs[h.wins[list_window_handle].buf].lines
StoredAt(state, cmd) == CHOOSE k \in 1..Len(state.cmd_list) : state.cmd_list[k] = cmd

\* lines is the stored list with the command committed last moved to the top
DefaultFirst(lines, state, log) ==
    IF state.cmd_list = <<>> THEN lines = <<"">>
    ELSE IF log = <<>> THEN lines = state.cmd_list
    ELSE /\ lines[1] = log[Len(log)]
         /\ Len(lines) = Len(state.cmd_list)
         /\ {lines[i] : i \in 1..Len(lines)}
               = {state.cmd_list[i] : i \in 1..Len(state.cmd_list)}
         /\ \A i, j \in 2..Len(lines) :
               i < j => StoredAt(state, lines[i]) < StoredAt(state, lines[j])

\* the last open created its picker, whose Input window has the focus
JustOpened ==
    /\ last.op = "open"
    /\ opened[Len(opened)].ok
    /\ nvim.curWin = opened[Len(opened)].input_window_handle
    /\ opened[Len(opened)].list_window_handle \in DOMAIN nvim.wins

\* C28: the List window of a project command picker that was just opened
\* shows the command of the last commit first and the other stored commands
\* after it in their stored order (the stored list as it is when nothing was
\* committed yet); a <CR> pressed right after the open, the Input being
\* empty, executes the command of the first row of the List window and no
\* other, and when there is no command it executes nothing and leaves the
\* stored commands and the default index as they were.
C28_DefaultFirstAndExecuted ==
    /\ [](JustOpened =>
             DefaultFirst(ShownList(nvim, opened[Len(opened)].list_window_handle),
                 cmd_map, executed))
    /\ [][(JustOpened /\ last'.op = "<CR>" /\ last'.handled
             /\ nvim.bufs[Keymap.input_buffer_handle].lines = <<"">>) =>
            IF cmd_map.cmd_list = <<>>
            THEN executed' = executed /\ cmd_map' = cmd_map
            ELSE executed' = Append(executed,
                     ShownList(nvim, Keymap.list_window_handle)[1])]_vars

\* a second picker showed the second stored command first, it being the one
\* committed before, and a <CR> with an empty Input executed it again
C28_Witness ==
    /\ last.op = "<CR>"
    /\ Len(cb_log) = 2
    /\ cb_log[2].text = ""
    /\ Len(executed) = 2
    /\ executed[2] = executed[1]
    /\ cmd_map.default_cmd_index = SomeIndex(1)

\* the windows an open created that are still open
WindowsLeft(i) ==
    (opened[i].first_win .. (opened[i].end_win - 1)) \cap DOMAIN nvim.wins

\* the <CR> and <c-e> maps of session i are set, in both modes
CanCommitOrCancel(i) ==
    \E b \in SessionBuffers(i) \cap DOMAIN nvim.keymaps :
        {<<"i", "<CR>">>, <<"n", "<CR>">>, <<"i", "<c-e>">>, <<"n", "<c-e>">>}
            \subseteq DOMAIN nvim.keymaps[b].maps

\* C29 as claimed: a picker whose open returned Ok carries its <CR> and
\* <c-e> maps for as long as a window that the open created is open, so that
\* a later <c-e> or <CR> can close it.
C29_OkOpenCanBeClosed ==
    \A i \in Opens :
        (opened[i].ok /\ WindowsLeft(i) # {}) => CanCommitOrCancel(i)

----------------------------------------------------------------------------
(* Properties of the single-window picker (SpecPicker) *)

\* open i is a single-window picker whose window opened
PickerSession(i) == opened[i].kind = "picker" /\ opened[i].list_window_handle # -1

\* the session whose window has the focus
FocusedPicker == CHOOSE i \in Opens : opened[i].list_window_handle = nvim.curWin

\* the line of the focused buffer the cursor is on
LineUnderCursor == nvim.bufs[current_buf(nvim)].lines[nvim.wins[nvim.curWin].row]

\* the buffers of the single-window pickers keep their lines while they live
PickerListsKept ==
    \A i \in Opens :
        opened[i].kind = "picker" =>
            \A b \in SessionBuffers(i) \cap DOMAIN nvim'.bufs :
                /\ nvim'.bufs[b].lines = nvim.bufs[b].lines
                /\ nvim.bufs[b].lines =
                       IF opened[i].list = <<>> THEN <<"">> ELSE opened[i].list

PickerClosedIn(i, h) ==
    /\ opened[i].list_window_handle \notin DOMAIN h.wins
    /\ SessionBuffers(i) \cap DOMAIN h.bufs = {}
    /\ SessionBuffers(i) \cap DOMAIN h.keymaps = {}

C20_RatioOverridesAutoFit ==
    \A i \in Opens :
        /\ (opened[i].opts.auto_width /\ InUnit(opened[i].opts.window_width_ratio)) =>
               \A w \in WindowsOf(i) :
                   nvim.wins[w].cfg.width =
                       FloorOf(screen.width, opened[i].opts.window_width_ratio)
        /\ (opened[i].opts.auto_height /\ InUnit(opened[i].opts.window_height_ratio)) =>
               /\ opened[i].kind = "editable" => LayoutHeight(i) = RatioHeight(i)
               /\ opened[i].kind = "picker" =>
                      \A w \in WindowsOf(i) : HeightOf(w) = RatioHeight(i)

\* both ratios and both auto flags on a three-item list whose content would
\* give another width and another height
C20_Witness ==
    /\ Len(opened) = 1
    /\ opened[1].kind = "picker"
    /\ opened[1].opts.auto_width /\ opened[1].opts.auto_height
    /\ InUnit(opened[1].opts.window_width_ratio)
    /\ InUnit(opened[1].opts.window_height_ratio)
    /\ Len(opened[1].list) = 3
    /\ \A w \in WindowsOf(1) :
           /\ nvim.wins[w].cfg.width # max_line_len(opened[1].list, 1, 0) + 4
           /\ HeightOf(w) # 3
    /\ WindowsOf(1) # {}

\* the layout open i computed
LayoutOf(i) ==
    IF opened[i].kind = "editable"
    THEN editable_picker_layout(opened[i].opts, opened[i].title,
             opened[i].list, screen)
    ELSE popup_window_layout(opened[i].opts,
             IF opened[i].list = <<>> THEN <<"">> ELSE opened[i].list, screen)

\* floor((screen_size - effective) / 2), 0 when the effective size exceeds
\* the screen
Centre(screen_size, effective) ==
    IF effective > screen_size THEN 0
    ELSE CHOOSE k \in 0..(screen_size + Abs(effective)) :
             2 * k <= screen_size - effective /\ screen_size - effective < 2 * (k + 1)

\* C21 as claimed: the effective width and height used for centring are
\* width + 2 and height + 2 for every bordered picker, editable or not, and
\* width and height for a borderless one.
C21_BorderAddsTwo ==
    \A i \in Opens :
        LET b == IF opened[i].opts.border = "None" THEN 0 ELSE 2
        IN  /\ LayoutOf(i).cal_width = LayoutOf(i).width + b
            /\ LayoutOf(i).cal_height = LayoutOf(i).height + b
            /\ \A w \in TopWindows(i) :
                   /\ nvim.wins[w].cfg.col =
                          Centre(screen.width, LayoutOf(i).width + b)
                   /\ nvim.wins[w].cfg.row =
                          Centre(screen.height, LayoutOf(i).height + b)

\* C21, amended: the effective width used for centring is width + 2 for
\* every bordered picker; the effective height is height + 2 for the bordered
\* single-window picker and height + 4 for the bordered editable picker (its
\* three stacked windows have four border rows); for a borderless picker
\* they are width and height.
C21_BorderInflation ==
    \A i \in Opens :
        LET bw == IF opened[i].opts.border = "None" THEN 0 ELSE 2
            bh == IF opened[i].opts.border = "None" THEN 0
                  ELSE IF opened[i].kind = "editable" THEN 4 ELSE 2
        IN  /\ LayoutOf(i).cal_width = LayoutOf(i).width + bw
            /\ LayoutOf(i).cal_height = LayoutOf(i).height + bh
            /\ \A w \in TopWindows(i) :
                   /\ nvim.wins[w].cfg.col =
                          Centre(screen.width, LayoutOf(i).width + bw)
                   /\ nvim.wins[w].cfg.row =
                          Centre(screen.height, LayoutOf(i).height + bh)

\* a bordered editable picker whose row is the one of height + 4 and not the
\* one of height + 2
C21_Witness ==
    /\ Len(opened) = 1
    /\ opened[1].kind = "editable"
    /\ opened[1].opts.border = "Rounded"
    /\ Cardinality(WindowsOf(1)) = 3
    /\ nvim.wins[opened[1].title_window_handle].cfg.row
           = Centre(screen.height, LayoutOf(1).height + 4)
    /\ nvim.wins[opened[1].title_window_handle].cfg.row
           # Centre(screen.height, LayoutOf(1).height + 2)

\* the screen rows a window takes with its border rows: a floating window's
\* row is the row of its border, when it has one above
OuterRows(w) ==
    LET c == nvim.wins[w].cfg
        above == IF c.border.top THEN 1 ELSE 0
        below == IF c.border.bottom THEN 1 ELSE 0
    IN  c.row .. (c.row + above + c.height + below - 1)

\* the rows of the three windows of editable open i
StackRows(i) ==
    OuterRows(opened[i].title_window_handle)
        \cup OuterRows(opened[i].input_window_handle)
        \cup OuterRows(opened[i].list_window_handle)

\* Title, Input and List have the same col and width and lie one under the
\* other without overlap and without gap, Input 2 rows under the Title's row
\* and List 3 rows under the Input's
Stacked(i) ==
    LET t == opened[i].title_window_handle
        n == opened[i].input_window_handle
        l == opened[i].list_window_handle
    IN  /\ nvim.wins[t].cfg.col = nvim.wins[n].cfg.col
        /\ nvim.wins[n].cfg.col = nvim.wins[l].cfg.col
        /\ nvim.wins[t].cfg.width = nvim.wins[n].cfg.width
        /\ nvim.wins[n].cfg.width = nvim.wins[l].cfg.width
        /\ nvim.wins[n].cfg.row = nvim.wins[t].cfg.row + 2
        /\ nvim.wins[l].cfg.row = nvim.wins[n].cfg.row + 3
        /\ OuterRows(t) \cap OuterRows(n) = {}
        /\ OuterRows(n) \cap OuterRows(l) = {}
        /\ OuterRows(t) \cap OuterRows(l) = {}
        /\ StackRows(i) =
               nvim.wins[t].cfg.row .. (nvim.wins[t].cfg.row + StackHeight(i) + 3)

\* open i is an editable picker with its three windows open
ThreeWindows(i) == opened[i].kind = "editable" /\ Cardinality(WindowsOf(i)) = 3

\* C22 as claimed: the three windows of the editable picker are stacked
\* without overlap or gap (Input at Title row + 2, List at Input row + 3,
\* same col, same width), and the rows of the stack, borders included, are
\* as many as the effective height used for centring.
C22_StackFillsEffectiveHeight ==
    \A i \in Opens :
        ThreeWindows(i) =>
            /\ Stacked(i)
            /\ Cardinality(StackRows(i)) = LayoutOf(i).cal_height

\* C22, amended: the three windows are stacked without overlap or gap (Input
\* at Title row + 2, List at Input row + 3, same col, same width); the rows
\* of the stack are the three content heights plus four border rows, and
\* that is the effective height used for centring when the height is
\* auto-fit, the border option is not None and the list has an item; with
\* the empty list it is one row more than the effective height (7 against 6).
C22_Stacked ==
    \A i \in Opens :
        ThreeWindows(i) =>
            /\ Stacked(i)
            /\ Cardinality(StackRows(i)) = StackHeight(i) + 4
            /\ (AutoHeight(i) /\ opened[i].opts.border # "None") =>
                   /\ Len(opened[i].list) >= 1 =>
                          Cardinality(StackRows(i)) = LayoutOf(i).cal_height
                   /\ Len(opened[i].list) = 0 =>
                          /\ Cardinality(StackRows(i)) = 7
                          /\ LayoutOf(i).cal_height = 6

\* a bordered auto-fit picker of three items: nine rows, the effective height
C22_Witness ==
    /\ Len(opened) = 1
    /\ ThreeWindows(1)
    /\ AutoHeight(1)
    /\ opened[1].opts.border = "Rounded"
    /\ Len(opened[1].list) = 3
    /\ Cardinality(StackRows(1)) = 9
    /\ LayoutOf(1).cal_height = 9

----------------------------------------------------------------------------
(* Properties of several sessions at once (SpecSessions) *)

\* session j has its windows, buffers and key maps in editor h
IntactIn(j, h) ==
    /\ SessionWindows(j) \subseteq DOMAIN h.wins
    /\ SessionBuffers(j) \subseteq DOMAIN h.bufs
    /\ h.wins[opened[j].input_window_handle].buf \in DOMAIN h.keymaps

\* the step leaves every Active session other than i as it was
OthersUntouched(i) ==
    \A j \in Opens \ {i} :
        Active(j) =>
            /\ IntactIn(j, nvim')
            /\ CursorRow(j, nvim') = CursorRow(j, nvim)
            /\ InputOf(j, nvim') = InputOf(j, nvim)

\* C23: an open while a session is Active returns Ok when its buffers are
\* created, and Active when its windows open too, with windows and buffers
\* of its own; the windows and buffers of any two sessions are disjoint; a
\* handled <CR> or <c-e> destroys the windows, buffers and key maps of the
\* focused session only and leaves every other Active session Active, its
\* cursor row and its Input as they were.
C23_SessionsIndependent ==
    /\ [](\A i, j \in Opens : i # j =>
             /\ WindowsOf(i) \cap WindowsOf(j) = {}
             /\ SessionBuffers(i) \cap SessionBuffers(j) = {})
    /\ [][(last'.op = "open" /\ \E i \in Opens : Active(i)) =>
             LET n == Len(opened')
             IN  /\ n = Len(opened) + 1
                 /\ opened'[n].end_buf = opened'[n].first_buf + 3 => opened'[n].ok
                 /\ (opened'[n].end_win = opened'[n].first_win + 3) =>
                        /\ opened'[n].ok
                        /\ {opened'[n].title_window_handle,
                             opened'[n].input_window_handle,
                             opened'[n].list_window_handle}
                               = opened'[n].first_win .. (opened'[n].end_win - 1)
                        /\ opened'[n].first_win .. (opened'[n].end_win - 1)
                               \subseteq DOMAIN nvim'.wins \ DOMAIN nvim.wins
                        /\ opened'[n].input_window_handle = nvim'.curWin
                        /\ current_buf(nvim') \in DOMAIN nvim'.keymaps
                 /\ OthersUntouched(0)]_vars
    /\ [][(last'.handled /\ last'.op \in {"<CR>", "<c-e>"}) =>
             /\ Destroyed(Focused, nvim')
             /\ OthersUntouched(Focused)]_vars

\* two sessions were Active at once; the second was committed and the first
\* is still Active, on its second row
C23_Witness ==
    /\ Len(opened) = 2
    /\ Active(1)
    /\ Closed(2)
    /\ last.op = "<CR>"
    /\ last.handled
    /\ Len(cb_log) = 1
    /\ CursorRow(1, nvim) = 2
    /\ InputOf(1, nvim) = <<"22222">>

----------------------------------------------------------------------------
(* Properties of <c-j>/<c-k> under failing editor calls (SpecFaults) *)

\* the event handled in this step had a failing call
Failing == "failed" \in DOMAIN last'

\* where the cursor goes, and what the Input gets, when nothing fails
TargetRow(key, r, n) ==
    IF key = "<c-j>" THEN (IF r < n THEN r + 1 ELSE r)
    ELSE (IF r > 1 THEN r - 1 ELSE r)

TargetInput(key, r, items, input) ==
    IF key = "<c-j>" THEN (IF r < Len(items) THEN <<items[r + 1]>> ELSE input)
    ELSE (IF r > 1 THEN <<items[r - 1]>> ELSE input)

\* nothing but the cursor row and the Input's content may differ after the
\* step: no window, buffer or key map comes or goes, no error is raised
OnlyRowAndInputMayChange(i) ==
    /\ DOMAIN nvim'.wins = DOMAIN nvim.wins
    /\ DOMAIN nvim'.bufs = DOMAIN nvim.bufs
    /\ nvim'.keymaps = nvim.keymaps
    /\ nvim'.curWin = nvim.curWin
    /\ nvim'.mode = nvim.mode
    /\ \A w \in DOMAIN nvim.wins \ {opened[i].list_window_handle} :
           nvim'.wins[w] = nvim.wins[w]
    /\ \A b \in DOMAIN nvim.bufs \ {nvim.wins[opened[i].input_window_handle].buf} :
           nvim'.bufs[b] = nvim.bufs[b]
    /\ UNCHANGED <<cmd_map, executed, opened, cb_log, panicked>>

\* C24 as claimed: a <c-j> or <c-k> during which a call to the editor fails
\* changes nothing, neither the cursor row nor the Input.
C24_FailureIsNoOp ==
    [][Failing =>
          /\ nvim' = nvim
          /\ UNCHANGED <<cmd_map, executed, opened, cb_log, panicked>>]_vars

\* C24, amended: a failing call is skipped and no error propagates, but the
\* rest of the handler runs.  The event is a no-op when the cursor read or
\* the list-buffer lookup fails (and on <c-k> at row 1); when the line read
\* or the Input write fails the Input is unchanged and the cursor moves as
\* usual; when the line count or the cursor write fails the cursor row is
\* unchanged and the Input is replaced as usual.
C24_FailureSkipsCall ==
    [][Failing =>
          LET i == Focused
              r == CursorRow(i, nvim)
              n == Len(Items(i))
          IN  /\ OnlyRowAndInputMayChange(i)
              /\ last'.failed \in {"get_cursor", "get_buf"} => nvim' = nvim
              /\ (last'.op = "<c-k>" /\ r = 1) => nvim' = nvim
              /\ last'.failed \in {"get_lines", "set_lines"} =>
                     /\ InputOf(i, nvim') = InputOf(i, nvim)
                     /\ CursorRow(i, nvim') = TargetRow(last'.op, r, n)
              /\ last'.failed \in {"line_count", "set_cursor"} =>
                     /\ CursorRow(i, nvim') = r
                     /\ InputOf(i, nvim') =
                            TargetInput(last'.op, r, Items(i), InputOf(i, nvim))]_vars

\* the line read failed on a <c-j> from row 1: the cursor is on row 2 and the
\* typed text is still in the Input
C24_Witness ==
    /\ "failed" \in DOMAIN last
    /\ last.failed = "get_lines"
    /\ last.op = "<c-j>"
    /\ Len(opened) = 1
    /\ Active(1)
    /\ CursorRow(1, nvim) = 2
    /\ InputOf(1, nvim) = <<"x">>

----------------------------------------------------------------------------
(* Properties of the module-state mutexes (SpecLocks) *)

\* C27: no handler locks a module-state mutex that its call chain holds, and
\* every handler returns with both mutexes released; project_command::open
\* locks MY_PROJECT_COMMAND_STATE twice, one guard after the other, and runs
\* no callback; the callback, which locks it once, only runs in a later <CR>
\* of the picker, when no mutex is held; a go_parent_directory that lists the
\* parent has released MY_DIRED_STATE before, and the listing locks it again.
C27_NoRelock ==
    /\ [](~mutex.relocked /\ mutex.held = {})
    /\ [][last'.op = "open" => (mutex'.acquired = 2 /\ cb_log' = cb_log)]_vars
    /\ [][cb_log' # cb_log =>
             /\ last'.op = "<CR>"
             /\ last'.handled
             /\ mutex.held = {}
             /\ mutex'.acquired = 1]_vars
    /\ [][(last'.op = "h"
             /\ dired'.last_dired_buffer_dir # dired.last_dired_buffer_dir) =>
             mutex'.acquired = 2]_vars

\* a commit ran the callback after an open, and then h went up to the root,
\* locking MY_DIRED_STATE in its scope and again in the listing
C27_Witness ==
    /\ Len(cb_log) = 1
    /\ Len(executed) = 1
    /\ last.op = "h"
    /\ mutex.acquired = 2
    /\ dired.last_dired_buffer_dir = SomeDir(<<>>)
    /\ ~mutex.relocked
----------------------------------------------------------------------------
(* Properties of the window positions (SpecLayout) *)

IsOne(r) == r.some /\ r.num = r.den

\* an item that does not fit the screen with the 4 cells auto-fit adds
TooWide(i) == \E k \in 1..Len(opened[i].list) : Len(opened[i].list[k]) + 4 > screen.width

\* C30: the row and col of every window a picker opens are cells from 0 on,
\* no further from 0 than the screen size and the effective size together
\* (nothing wraps around); col is 0 when the effective width exceeds the
\* screen width, and the row of the picker's top window is 0 when the
\* effective height exceeds the screen height; so it is with a ratio of 1
\* and a border, and with auto-fit on an item wider than the screen.
C30_PositionValid ==
    \A i \in Opens : \A w \in WindowsOf(i) :
        LET c == nvim.wins[w].cfg
        IN  /\ c.row >= 0
            /\ c.col >= 0
            /\ c.col <= screen.width + Abs(LayoutOf(i).cal_width)
            /\ c.row <= screen.height + Abs(LayoutOf(i).cal_height) + 5
            /\ LayoutOf(i).cal_width > screen.width => c.col = 0
            /\ (LayoutOf(i).cal_height > screen.height /\ w \in TopWindows(i)) =>
                   c.row = 0
            /\ (IsOne(opened[i].opts.window_width_ratio)
                   /\ opened[i].opts.border # "None") => c.col = 0
            /\ (IsOne(opened[i].opts.window_height_ratio)
                   /\ opened[i].opts.border # "None" /\ w \in TopWindows(i)) =>
                   c.row = 0
            /\ (auto_width_case(opened[i].opts) /\ TooWide(i)) => c.col = 0

\* an editable picker with a border, a height ratio of 1 and an item of the
\* screen's width under auto-fit: its three windows are at col 0 and its
\* Title window at row 0
C30_Witness ==
    /\ Len(opened) = 1
    /\ opened[1].kind = "editable"
    /\ opened[1].opts.border = "Rounded"
    /\ IsOne(opened[1].opts.window_height_ratio)
    /\ auto_width_case(opened[1].opts)
    /\ TooWide(1)
    /\ Cardinality(WindowsOf(1)) = 3
    /\ LayoutOf(1).cal_width > screen.width
    /\ LayoutOf(1).cal_height > screen.height
    /\ \A w \in WindowsOf(1) : nvim.wins[w].cfg.col = 0
    /\ nvim.wins[opened[1].title_window_handle].cfg.row = 0
    /\ nvim.wins[opened[1].list_window_handle].cfg.row = 5

====
